---------------------------- MODULE Spec2Model ----------------------------
(***************************************************************************)
(* A model of the data layer of psst-gui:                                  *)
(*                                                                         *)
(*   - the Delegate of psst-gui/src/delegate.rs, which turns commands into *)
(*     deferred fetches on worker threads and routes each completion back  *)
(*     to the consumer thread (specifications Spec, SpecDelegate,          *)
(*     SpecConsumer, SpecLibrary, SpecImages and, under fair scheduling,   *)
(*     SpecLive);                                                          *)
(*   - WebApi::with_retry, WebApi::load_all_pages and WebApi::load_cached  *)
(*     of psst-gui/src/webapi/client.rs (specifications SpecRetry,         *)
(*     SpecPages and SpecCache), the endpoints built on them               *)
(*     (SpecEndpoints), and get_playlist_tracks run in the thread of       *)
(*     LOAD_PLAYLIST_DETAIL (SpecPlaylist).                                *)
(*                                                                         *)
(* The Promise type (data/promise.rs) and the WebApiCache (webapi/cache.rs)*)
(* are modelled from sections 3, 4.1, 4.2 and 5 of the specification of    *)
(* the data layer.                                                         *)
(***************************************************************************)
EXTENDS Integers, Sequences, FiniteSets, Bags, TLC

VARIABLES
    data,          \* State: the consumer's Promise cells, by path
    image_cache,   \* Delegate.image_cache: locations, least recently used first
    workers,       \* the spawned threads that have not finished (a bag of jobs)
    queue,         \* commands submitted through the ExtEventSink, not yet handled
    loads,         \* number of fetch-dispatching commands handled so far
    panicked,      \* jobs whose worker thread ended in a panic
    owner,         \* history: the identity each cell was deferred with last
    dropped,       \* history: the state of the cell found by the last dropped stale completion
    inserted,      \* history: the locations put in image_cache, in order of first insertion
    retry,         \* one call of WebApi::load: the with_retry loop and its caller
    paging,        \* one call of WebApi::load_all_pages
    caching        \* the calls of WebApi::load_cached and the disk cache they share

\* The Delegate and the consumer's state.
dvars == <<data, image_cache, workers, queue, loads, panicked, owner, dropped,
          inserted>>

\* The calls of the WebApi client.
client == <<retry, paging, caching>>

vars == <<data, image_cache, workers, queue, loads, panicked, owner, dropped,
          inserted,
          retry, paging, caching>>

---------------------------------------------------------------------------
(* Bounds of the model. *)

\* Fetch-dispatching commands handled in one run.
MaxLoads == 2

\* Completion commands waiting in the event queue at one time.
MaxQueue == 1

\* Fetches under way at one time (threads running, completions in the queue).
MaxThreads == 5

\* Identities: playlist, album and artist links, search queries, image locations.
Links == {"a", "b"}

None == "none"

---------------------------------------------------------------------------
(* Promise<T, D, E>: Empty | Deferred(D) | Resolved(T) | Rejected(D, E). *)

Empty == [state |-> "Empty", def |-> None, val |-> None]

Deferred(d) == [state |-> "Deferred", def |-> d, val |-> None]

Resolved(v) == [state |-> "Resolved", def |-> None, val |-> v]

Rejected(d, e) == [state |-> "Rejected", def |-> d, val |-> e]

\* Promise::defer: unconditionally Deferred(d), whatever was there.
defer(p, d) == Deferred(d)

\* Promise::is_deferred: the cell is Deferred with an equal identity.
is_deferred(p, d) == p.state = "Deferred" /\ p.def = d

\* Promise::is_empty and Promise::is_rejected.
is_empty(p) == p.state = "Empty"

is_rejected(p) == p.state = "Rejected"

\* Promise::resolve.
resolve(p, v) == Resolved(v)

\* Promise::reject: keeps the identity the cell was waiting on.
reject(p, e) == Rejected(p.def, e)

\* Promise::resolve_or_reject: resolve on Ok, reject on Err.
resolve_or_reject(p, result) ==
    IF result.ok THEN resolve(p, result.val) ELSE reject(p, result.val)

\* Result<T, Error> of a fetch for identity l: the payload (or the error)
\* is the one that belongs to l.
Ok(l) == [ok |-> TRUE, val |-> <<"data", l>>]

Err(l) == [ok |-> FALSE, val |-> <<"error", l>>]

Results(l) == {Ok(l), Err(l)}

---------------------------------------------------------------------------
(* The cells of State that the Delegate defers and resolves. *)

Cells == {"playlist.playlist", "playlist.tracks", "album.album",
          "artist.artist", "artist.top_tracks", "artist.related_artists",
          "artist.albums", "search.results",
          "library.saved_tracks", "library.saved_albums",
          "playback.analysis"}

\* The copies of the saved tracks and albums kept in data.common_ctx.
CommonCtx == {"common_ctx.saved_tracks", "common_ctx.saved_albums"}

\* D::default(), the identity of the cells deferred with defer_default.
Default == "default"

\* Vector::new()
NoItems == <<>>

\* The tracks and albums a save or unsave command can carry.
Items == {"t1", "t2"}

Item(id) == <<"data", id>>

\* The commands whose thread submits nothing when its call returns.
SaveCmds == {"SAVE_TRACK", "UNSAVE_TRACK", "SAVE_ALBUM", "UNSAVE_ALBUM"}

\* CommonCtx::set_saved_tracks and set_saved_albums: the saved set becomes
\* the items of the list.
set_saved(list) == IF list = NoItems THEN {} ELSE {list}

\* State::save_track and save_album, State::unsave_track and unsave_album:
\* the local change to the saved set.
save(saved, id) == saved \cup {Item(id)}

unsave(saved, id) == saved \ {Item(id)}

\* The cells whose completion handler checks is_deferred(&link) first.
GatedCells == {"playlist.tracks", "album.album", "artist.artist",
               "artist.top_tracks", "artist.related_artists", "artist.albums"}

\* The completion command that resolves each cell (playlist.playlist is
\* deferred by LOAD_PLAYLIST_DETAIL and resolved by no handler of the Delegate).
UpdateOf(cell) ==
    CASE cell = "playlist.tracks" -> "UPDATE_PLAYLIST_TRACKS"
      [] cell = "album.album" -> "UPDATE_ALBUM_DETAIL"
      [] cell = "artist.artist" -> "UPDATE_ARTIST_DETAIL"
      [] cell = "artist.top_tracks" -> "UPDATE_ARTIST_TOP_TRACKS"
      [] cell = "artist.related_artists" -> "UPDATE_ARTIST_RELATED"
      [] cell = "artist.albums" -> "UPDATE_ARTIST_ALBUMS"
      [] cell = "search.results" -> "UPDATE_SEARCH_RESULTS"
      [] cell = "library.saved_tracks" -> "UPDATE_SAVED_TRACKS"
      [] cell = "library.saved_albums" -> "UPDATE_SAVED_ALBUMS"
      [] cell = "playback.analysis" -> "UPDATE_AUDIO_ANALYSIS"
      [] OTHER -> None

\* A job: the thread spawned for one fetch; cmd is the completion command it
\* will submit, link the identity it was spawned with.
Job(c, l) == [cmd |-> c, link |-> l]

\* A completion command in the queue.
Msg(c, l, r) == [cmd |-> c, link |-> l, result |-> r]

\* Delegate::spawn: one more thread.
spawn(ws, j) == ws (+) SetToBag({j})

\* ExtEventSink::submit_command: the command joins the event queue.
submit_command(q, m) == Append(q, m)

\* Threads running or with their completion still in the queue.
Threads == BagCardinality(workers) + Len(queue)

\* A command that spawns n threads is handled within the bounds.
Budget(n) == loads < MaxLoads /\ Threads + n <= MaxThreads

\* result.map(|tracks| PlaylistTracks { id: link.id, name: link.name, tracks })
\* and the same for ArtistTracks.
MapTracks(wrapper, link, result) ==
    IF result.ok
    THEN [ok |-> TRUE, val |-> <<wrapper, link, result.val>>]
    ELSE result

\* The identity of the fetch a payload or an error comes from.
Origin(v) ==
    IF v[1] \in {"PlaylistTracks", "ArtistTracks"} THEN v[3][2] ELSE v[2]

\* LruCache::get_mut: a hit moves the entry to the most recently used end.
lru_contains(cache, k) == \E i \in 1..Len(cache) : cache[i] = k

lru_without(cache, k) == SelectSeq(cache, LAMBDA x : x # k)

\* A lookup that leaves the order of use alone.
lru_get_mut_NoPromotion(cache, k) == cache

lru_get_mut(cache, k) ==
    IF lru_contains(cache, k) THEN Append(lru_without(cache, k), k) ELSE cache

\* Delegate::new: the capacity of the image cache.
IMAGE_CACHE_SIZE == 256

\* LruCache::insert: the entry becomes the most recently used one; beyond
\* the capacity the least recently used entry is removed.
\* An insertion that never evicts.
lru_insert_NeverEvicts(cache, k) == Append(lru_without(cache, k), k)

lru_insert(cache, k) ==
    LET put == Append(lru_without(cache, k), k)
    IN  IF Len(put) > IMAGE_CACHE_SIZE THEN Tail(put) ELSE put

DelegateInit ==
    /\ data = [c \in Cells \cup CommonCtx |-> IF c \in Cells THEN Empty ELSE set_saved(NoItems)]
    /\ image_cache = <<>>
    /\ workers = EmptyBag
    /\ queue = <<>>
    /\ loads = 0
    /\ panicked = {}
    /\ owner = [c \in Cells |-> None]
    /\ dropped = None
    /\ inserted = <<>>

\* No call of the client under way.
Idle == [pc |-> "idle"]

Init == DelegateInit /\ retry = Idle /\ paging = Idle /\ caching = Idle

---------------------------------------------------------------------------
(* Commands that dispatch fetches. Each is handled on the consumer thread  *)
(* in one step: the cell is deferred and the thread is spawned.            *)

\* The widgets a command can be addressed to.
Targets == {"w1", "w2"}

\* The thread of an image fetch: it keeps the location and the target.
ImageJob(location, target) ==
    [cmd |-> "PROVIDE_DATA", link |-> location, target |-> target]

\* remote_image::PROVIDE_DATA with its ImagePayload { location, image_buf },
\* submitted to target.
ProvideDataMsg(location, image_buf, target) ==
    [cmd |-> "PROVIDE_DATA", link |-> location, result |-> image_buf,
     target |-> target]

\* REQUEST_DATA that spawns a fetch whether the location is cached or not.
command_image_request_AlwaysFetch(location, target) ==
    /\ image_cache' = lru_get_mut(image_cache, location)
    /\ workers' = spawn(workers, ImageJob(location, target))
    /\ UNCHANGED queue
    /\ UNCHANGED <<data, panicked, owner, dropped, inserted>>
    /\ UNCHANGED client

\* REQUEST_DATA that spawns no fetch for a location already being fetched.
command_image_request_JoinsFetch(location, target) ==
    /\ image_cache' = lru_get_mut(image_cache, location)
    /\ IF lru_contains(image_cache, location)
       THEN /\ Len(queue) < MaxQueue
            /\ queue' = submit_command(queue,
                            ProvideDataMsg(location, Ok(location), target))
            /\ UNCHANGED workers
       ELSE /\ workers' = IF \E j \in BagToSet(workers) :
                                j.cmd = "PROVIDE_DATA" /\ j.link = location
                          THEN workers
                          ELSE spawn(workers, ImageJob(location, target))
            /\ UNCHANGED queue
    /\ UNCHANGED <<data, panicked, owner, dropped, inserted>>
    /\ UNCHANGED client

\* remote_image::REQUEST_DATA sent to target (delegate.rs 136-159): a
\* location in the cache is promoted and its image submitted; for any other
\* a thread is spawned.
command_image_request(location, target) ==
    /\ image_cache' = lru_get_mut(image_cache, location)
    /\ IF lru_contains(image_cache, location)
       THEN /\ Len(queue) < MaxQueue
            /\ queue' = submit_command(queue,
                            ProvideDataMsg(location, Ok(location), target))
            /\ UNCHANGED workers
       ELSE /\ workers' = spawn(workers, ImageJob(location, target))
            /\ UNCHANGED queue
    /\ UNCHANGED <<data, panicked, owner, dropped, inserted>>
    /\ UNCHANGED client

\* remote_image::REQUEST_DATA (delegate.rs 136-159).
RequestData(location) ==
    /\ Budget(1)
    /\ loads' = loads + 1
    /\ \E target \in Targets : command_image_request(location, target)

\* cmd::LOAD_PLAYLIST_DETAIL (delegate.rs 179-188).
LoadPlaylistDetail(link) ==
    /\ Budget(1)
    /\ loads' = loads + 1
    /\ data' = [data EXCEPT !["playlist.playlist"] = defer(@, link),
                            !["playlist.tracks"] = defer(@, link)]
    /\ owner' = [owner EXCEPT !["playlist.playlist"] = link,
                              !["playlist.tracks"] = link]
    /\ workers' = spawn(workers, Job("UPDATE_PLAYLIST_TRACKS", link))
    /\ UNCHANGED <<image_cache, queue, panicked, dropped, inserted>>
    /\ UNCHANGED client

\* cmd::LOAD_ALBUM_DETAIL (delegate.rs 310-318).
LoadAlbumDetail(link) ==
    /\ Budget(1)
    /\ loads' = loads + 1
    /\ data' = [data EXCEPT !["album.album"] = defer(@, link)]
    /\ owner' = [owner EXCEPT !["album.album"] = link]
    /\ workers' = spawn(workers, Job("UPDATE_ALBUM_DETAIL", link))
    /\ UNCHANGED <<image_cache, queue, panicked, dropped, inserted>>
    /\ UNCHANGED client

\* cmd::LOAD_ARTIST_DETAIL (delegate.rs 336-373): four cells, four threads.
LoadArtistDetail(link) ==
    /\ Budget(4)
    /\ loads' = loads + 1
    /\ data' = [data EXCEPT !["artist.artist"] = defer(@, link),
                            !["artist.top_tracks"] = defer(@, link),
                            !["artist.related_artists"] = defer(@, link),
                            !["artist.albums"] = defer(@, link)]
    /\ owner' = [owner EXCEPT !["artist.artist"] = link,
                              !["artist.top_tracks"] = link,
                              !["artist.related_artists"] = link,
                              !["artist.albums"] = link]
    /\ workers' = spawn(spawn(spawn(spawn(workers,
                      Job("UPDATE_ARTIST_DETAIL", link)),
                      Job("UPDATE_ARTIST_TOP_TRACKS", link)),
                      Job("UPDATE_ARTIST_RELATED", link)),
                      Job("UPDATE_ARTIST_ALBUMS", link))
    /\ UNCHANGED <<image_cache, queue, panicked, dropped, inserted>>
    /\ UNCHANGED client

\* cmd::LOAD_SEARCH_RESULTS (delegate.rs 412-420).
LoadSearchResults(query) ==
    /\ Budget(1)
    /\ loads' = loads + 1
    /\ data' = [data EXCEPT !["search.results"] = defer(@, query)]
    /\ owner' = [owner EXCEPT !["search.results"] = query]
    /\ workers' = spawn(workers, Job("UPDATE_SEARCH_RESULTS", query))
    /\ UNCHANGED <<image_cache, queue, panicked, dropped, inserted>>
    /\ UNCHANGED client

\* LOAD_SAVED_* that defers and spawns whatever the state of the cell.
LoadSaved_Always(cell) ==
    /\ loads < MaxLoads
    /\ loads' = loads + 1
    /\ Threads + 1 <= MaxThreads
    /\ data' = [data EXCEPT ![cell] = defer(@, Default)]
    /\ owner' = [owner EXCEPT ![cell] = Default]
    /\ workers' = spawn(workers, Job(UpdateOf(cell), Default))
    /\ UNCHANGED <<image_cache, queue, panicked, dropped, inserted>>
    /\ UNCHANGED client

\* cmd::LOAD_SAVED_TRACKS and cmd::LOAD_SAVED_ALBUMS (delegate.rs 212-233):
\* the cell is deferred and a thread spawned only when the cell is Empty or
\* Rejected; otherwise the command is handled and changes nothing.
LoadSaved(cell) ==
    /\ loads < MaxLoads
    /\ loads' = loads + 1
    /\ IF is_empty(data[cell]) \/ is_rejected(data[cell])
       THEN /\ Threads + 1 <= MaxThreads
            /\ data' = [data EXCEPT ![cell] = defer(@, Default)]
            /\ owner' = [owner EXCEPT ![cell] = Default]
            /\ workers' = spawn(workers, Job(UpdateOf(cell), Default))
       ELSE UNCHANGED <<data, owner, workers>>
    /\ UNCHANGED <<image_cache, queue, panicked, dropped, inserted>>
    /\ UNCHANGED client

LoadSavedTracks == LoadSaved("library.saved_tracks")

LoadSavedAlbums == LoadSaved("library.saved_albums")

\* The local change of a save or unsave command and the thread of its
\* remote call (delegate.rs 260-297).
command_save(cmd, saved, changed, id) ==
    /\ Budget(1)
    /\ loads' = loads + 1
    /\ data' = [data EXCEPT ![saved] = changed]
    /\ workers' = spawn(workers, Job(cmd, id))
    /\ UNCHANGED <<image_cache, queue, panicked, owner, dropped, inserted>>
    /\ UNCHANGED client

\* cmd::SAVE_TRACK (delegate.rs 260-269).
SaveTrack(id) ==
    command_save("SAVE_TRACK", "common_ctx.saved_tracks",
                 save(data["common_ctx.saved_tracks"], id), id)

\* cmd::UNSAVE_TRACK (delegate.rs 270-278).
UnsaveTrack(id) ==
    command_save("UNSAVE_TRACK", "common_ctx.saved_tracks",
                 unsave(data["common_ctx.saved_tracks"], id), id)

\* cmd::SAVE_ALBUM (delegate.rs 279-288).
SaveAlbum(id) ==
    command_save("SAVE_ALBUM", "common_ctx.saved_albums",
                 save(data["common_ctx.saved_albums"], id), id)

\* cmd::UNSAVE_ALBUM (delegate.rs 289-297).
UnsaveAlbum(id) ==
    command_save("UNSAVE_ALBUM", "common_ctx.saved_albums",
                 unsave(data["common_ctx.saved_albums"], id), id)

\* cmd::PLAYBACK_PLAYING (delegate.rs 436-450): the analysis cell of the item
\* now playing, if there is one, is deferred on the item; the fetch is
\* spawned in either case.
PlaybackPlaying(item) ==
    /\ Budget(1)
    /\ loads' = loads + 1
    /\ \E now_playing \in BOOLEAN :
           IF now_playing
           THEN /\ data' = [data EXCEPT !["playback.analysis"] = defer(@, item)]
                /\ owner' = [owner EXCEPT !["playback.analysis"] = item]
           ELSE UNCHANGED <<data, owner>>
    /\ workers' = spawn(workers, Job("UPDATE_AUDIO_ANALYSIS", item))
    /\ UNCHANGED <<image_cache, queue, panicked, dropped, inserted>>
    /\ UNCHANGED client


---------------------------------------------------------------------------
(* The spawned threads. *)

\* What the thread of job j submits when its API call returned r:
\* (link, result) for the gated kinds, the result alone for a search and for
\* the saved tracks and albums.
Completion(j, r) ==
    Msg(j.cmd,
        IF j.cmd \in {"UPDATE_SEARCH_RESULTS", "UPDATE_SAVED_TRACKS",
                      "UPDATE_SAVED_ALBUMS"}
        THEN None ELSE j.link,
        r)

\* A thread that submits its completion and goes on running.
WorkerFinish_StaysOn(j, r) ==
    /\ BagIn(j, workers)
    /\ j.cmd \notin {"PROVIDE_DATA"} \cup SaveCmds
    /\ Len(queue) < MaxQueue
    /\ queue' = submit_command(queue, Completion(j, r))
    /\ UNCHANGED <<data, image_cache, workers, loads, panicked, owner, dropped,
                   inserted>>
    /\ UNCHANGED client

\* The thread of a fetch (delegate.rs 183-187, 313-317, 341-372, 415-419):
\* the API call returns Ok or Err and the thread submits the completion.
WorkerFinish(j, r) ==
    /\ BagIn(j, workers)
    /\ j.cmd \notin {"PROVIDE_DATA"} \cup SaveCmds
    /\ Len(queue) < MaxQueue
    /\ workers' = workers (-) SetToBag({j})
    /\ queue' = submit_command(queue, Completion(j, r))
    /\ UNCHANGED <<data, image_cache, loads, panicked, owner, dropped, inserted>>
    /\ UNCHANGED client

\* The thread of a save or unsave whose failure undoes the local change.
SaveWorkerFinish_RollsBack(j, r) ==
    /\ BagIn(j, workers)
    /\ j.cmd \in SaveCmds
    /\ workers' = workers (-) SetToBag({j})
    /\ data' = IF r.ok THEN data
               ELSE [data EXCEPT !["common_ctx.saved_tracks"] = unsave(@, j.link),
                                 !["common_ctx.saved_albums"] = unsave(@, j.link)]
    /\ UNCHANGED <<image_cache, queue, loads, panicked, owner, dropped, inserted>>
    /\ UNCHANGED client

\* The thread of a save or unsave (delegate.rs 263-268, 272-277, 282-287,
\* 291-296): the result of the call is looked at and dropped.
SaveWorkerFinish(j, r) ==
    /\ BagIn(j, workers)
    /\ j.cmd \in SaveCmds
    /\ workers' = workers (-) SetToBag({j})
    /\ UNCHANGED <<data, image_cache, queue, loads, panicked, owner, dropped,
                   inserted>>
    /\ UNCHANGED client

\* The thread of an image fetch (delegate.rs 146-157): get_image(..).unwrap()
\* panics on Err, and the thread ends without submitting anything.
ImageWorkerFinish(j, r) ==
    /\ BagIn(j, workers)
    /\ j.cmd = "PROVIDE_DATA"
    /\ workers' = workers (-) SetToBag({j})
    /\ IF r.ok
       THEN /\ Len(queue) < MaxQueue
            /\ queue' = submit_command(queue, ProvideDataMsg(j.link, r, j.target))
            /\ UNCHANGED panicked
       ELSE /\ panicked' = panicked \cup {j}
            /\ UNCHANGED queue
    /\ UNCHANGED <<data, image_cache, loads, owner, dropped, inserted>>
    /\ UNCHANGED client

---------------------------------------------------------------------------
(* Completion commands, handled on the consumer thread. *)

\* GatedUpdate without its check: every completion is applied.
GatedUpdate_Unchecked(cell, link, result) ==
    [data EXCEPT ![cell] = resolve_or_reject(@, result)]

\* GatedUpdate comparing the identity only, whatever the state of the cell.
GatedUpdate_IdentityOnly(cell, link, result) ==
    IF data[cell].def = link
    THEN [data EXCEPT ![cell] = resolve_or_reject(@, result)]
    ELSE data

\* if cell.is_deferred(&link) { cell.resolve_or_reject(result) }
GatedUpdate(cell, link, result) ==
    IF is_deferred(data[cell], link)
    THEN [data EXCEPT ![cell] = resolve_or_reject(@, result)]
    ELSE data

\* History: when the gate of its handler drops completion m and m carries
\* another identity than the cell was deferred with last, the state
\* ("Deferred", "Resolved", "Rejected") the handler found the cell in.
Dropped(cell, m) ==
    IF is_deferred(data[cell], m.link) \/ m.link = owner[cell]
    THEN dropped
    ELSE data[cell].state

Receive(c) == queue # <<>> /\ Head(queue).cmd = c

\* remote_image::PROVIDE_DATA (delegate.rs 160-162).
ProvideData ==
    /\ Receive("PROVIDE_DATA")
    /\ image_cache' = lru_insert(image_cache, Head(queue).link)
    /\ inserted' = IF \E i \in 1..Len(inserted) : inserted[i] = Head(queue).link
                   THEN inserted
                   ELSE Append(inserted, Head(queue).link)
    /\ queue' = Tail(queue)
    /\ UNCHANGED <<data, workers, loads, panicked, owner, dropped>>
    /\ UNCHANGED client

\* cmd::UPDATE_PLAYLIST_TRACKS (delegate.rs 189-199).
UpdatePlaylistTracks ==
    /\ Receive("UPDATE_PLAYLIST_TRACKS")
    /\ LET m == Head(queue)
       IN  /\ data' = GatedUpdate("playlist.tracks", m.link,
                                  MapTracks("PlaylistTracks", m.link, m.result))
           /\ dropped' = Dropped("playlist.tracks", m)
    /\ queue' = Tail(queue)
    /\ UNCHANGED <<image_cache, workers, loads, panicked, owner, inserted>>
    /\ UNCHANGED client

\* cmd::UPDATE_ALBUM_DETAIL (delegate.rs 319-323).
UpdateAlbumDetail ==
    /\ Receive("UPDATE_ALBUM_DETAIL")
    /\ LET m == Head(queue)
       IN  /\ data' = GatedUpdate("album.album", m.link, m.result)
           /\ dropped' = Dropped("album.album", m)
    /\ queue' = Tail(queue)
    /\ UNCHANGED <<image_cache, workers, loads, panicked, owner, inserted>>
    /\ UNCHANGED client

\* UPDATE_ARTIST_DETAIL whose failure rejects the four cells of the artist.
UpdateArtistDetail_FailsTheView ==
    /\ Receive("UPDATE_ARTIST_DETAIL")
    /\ LET m == Head(queue)
       IN  /\ data' = IF m.result.ok
                      THEN GatedUpdate("artist.artist", m.link, m.result)
                      ELSE [c \in Cells |->
                               IF c \in {"artist.artist", "artist.top_tracks",
                                         "artist.related_artists", "artist.albums"}
                               THEN resolve_or_reject(data[c], m.result)
                               ELSE data[c]]
           /\ dropped' = Dropped("artist.artist", m)
    /\ queue' = Tail(queue)
    /\ UNCHANGED <<image_cache, workers, loads, panicked, owner, inserted>>
    /\ UNCHANGED client

\* cmd::UPDATE_ARTIST_DETAIL (delegate.rs 374-378).
UpdateArtistDetail ==
    /\ Receive("UPDATE_ARTIST_DETAIL")
    /\ LET m == Head(queue)
       IN  /\ data' = GatedUpdate("artist.artist", m.link, m.result)
           /\ dropped' = Dropped("artist.artist", m)
    /\ queue' = Tail(queue)
    /\ UNCHANGED <<image_cache, workers, loads, panicked, owner, inserted>>
    /\ UNCHANGED client

\* cmd::UPDATE_ARTIST_ALBUMS (delegate.rs 379-383).
UpdateArtistAlbums ==
    /\ Receive("UPDATE_ARTIST_ALBUMS")
    /\ LET m == Head(queue)
       IN  /\ data' = GatedUpdate("artist.albums", m.link, m.result)
           /\ dropped' = Dropped("artist.albums", m)
    /\ queue' = Tail(queue)
    /\ UNCHANGED <<image_cache, workers, loads, panicked, owner, inserted>>
    /\ UNCHANGED client

\* cmd::UPDATE_ARTIST_TOP_TRACKS (delegate.rs 384-394).
UpdateArtistTopTracks ==
    /\ Receive("UPDATE_ARTIST_TOP_TRACKS")
    /\ LET m == Head(queue)
       IN  /\ data' = GatedUpdate("artist.top_tracks", m.link,
                                  MapTracks("ArtistTracks", m.link, m.result))
           /\ dropped' = Dropped("artist.top_tracks", m)
    /\ queue' = Tail(queue)
    /\ UNCHANGED <<image_cache, workers, loads, panicked, owner, inserted>>
    /\ UNCHANGED client

\* cmd::UPDATE_ARTIST_RELATED (delegate.rs 395-399).
UpdateArtistRelated ==
    /\ Receive("UPDATE_ARTIST_RELATED")
    /\ LET m == Head(queue)
       IN  /\ data' = GatedUpdate("artist.related_artists", m.link, m.result)
           /\ dropped' = Dropped("artist.related_artists", m)
    /\ queue' = Tail(queue)
    /\ UNCHANGED <<image_cache, workers, loads, panicked, owner, inserted>>
    /\ UNCHANGED client

\* UPDATE_SEARCH_RESULTS handled only once every thread has ended.
UpdateSearchResults_JoinsWorkers ==
    /\ workers = EmptyBag
    /\ Receive("UPDATE_SEARCH_RESULTS")
    /\ LET m == Head(queue)
       IN  data' = [data EXCEPT !["search.results"] =
                       resolve_or_reject(@, m.result)]
    /\ queue' = Tail(queue)
    /\ UNCHANGED <<image_cache, workers, loads, panicked, owner, dropped, inserted>>
    /\ UNCHANGED client

\* cmd::UPDATE_SEARCH_RESULTS (delegate.rs 421-423): no is_deferred check.
UpdateSearchResults ==
    /\ Receive("UPDATE_SEARCH_RESULTS")
    /\ LET m == Head(queue)
       IN  data' = [data EXCEPT !["search.results"] =
                       resolve_or_reject(@, m.result)]
    /\ queue' = Tail(queue)
    /\ UNCHANGED <<image_cache, workers, loads, panicked, owner, dropped, inserted>>
    /\ UNCHANGED client

\* UPDATE_SAVED_TRACKS that keeps the tracks saved locally next to the
\* tracks delivered.
UpdateSavedTracks_KeepsLocal ==
    /\ Receive("UPDATE_SAVED_TRACKS")
    /\ LET m == Head(queue)
       IN  data' = IF m.result.ok
                   THEN [data EXCEPT
                            !["common_ctx.saved_tracks"] = @ \cup set_saved(m.result.val),
                            !["library.saved_tracks"] =
                                resolve(@, <<"SavedTracks", m.result.val>>)]
                   ELSE [data EXCEPT
                            !["common_ctx.saved_tracks"] = set_saved(NoItems),
                            !["library.saved_tracks"] = reject(@, m.result.val)]
    /\ queue' = Tail(queue)
    /\ UNCHANGED <<image_cache, workers, loads, panicked, owner, dropped, inserted>>
    /\ UNCHANGED client

\* cmd::UPDATE_SAVED_TRACKS (delegate.rs 234-246): no check of the cell; the
\* tracks, or none on Err, are copied to common_ctx.
UpdateSavedTracks ==
    /\ Receive("UPDATE_SAVED_TRACKS")
    /\ LET m == Head(queue)
       IN  data' = IF m.result.ok
                   THEN [data EXCEPT
                            !["common_ctx.saved_tracks"] = set_saved(m.result.val),
                            !["library.saved_tracks"] =
                                resolve(@, <<"SavedTracks", m.result.val>>)]
                   ELSE [data EXCEPT
                            !["common_ctx.saved_tracks"] = set_saved(NoItems),
                            !["library.saved_tracks"] = reject(@, m.result.val)]
    /\ queue' = Tail(queue)
    /\ UNCHANGED <<image_cache, workers, loads, panicked, owner, dropped, inserted>>
    /\ UNCHANGED client

\* cmd::UPDATE_SAVED_ALBUMS (delegate.rs 247-258).
UpdateSavedAlbums ==
    /\ Receive("UPDATE_SAVED_ALBUMS")
    /\ LET m == Head(queue)
       IN  data' = IF m.result.ok
                   THEN [data EXCEPT
                            !["common_ctx.saved_albums"] = set_saved(m.result.val),
                            !["library.saved_albums"] = resolve(@, m.result.val)]
                   ELSE [data EXCEPT
                            !["common_ctx.saved_albums"] = set_saved(NoItems),
                            !["library.saved_albums"] = reject(@, m.result.val)]
    /\ queue' = Tail(queue)
    /\ UNCHANGED <<image_cache, workers, loads, panicked, owner, dropped, inserted>>
    /\ UNCHANGED client

\* cmd::UPDATE_AUDIO_ANALYSIS, submitted with (item, result) by the thread of
\* delegate.rs 444-448; the Delegate passes it on (Handled::No) and the
\* analysis cell applies it under the rule of the gated cells.
UpdateAudioAnalysis ==
    /\ Receive("UPDATE_AUDIO_ANALYSIS")
    /\ LET m == Head(queue)
       IN  /\ data' = GatedUpdate("playback.analysis", m.link, m.result)
           /\ dropped' = Dropped("playback.analysis", m)
    /\ queue' = Tail(queue)
    /\ UNCHANGED <<image_cache, workers, loads, panicked, owner, inserted>>
    /\ UNCHANGED client

\* Threads that end by submitting a completion command.
Workers ==
    \E j \in BagToSet(workers) : \E r \in Results(j.link) : WorkerFinish(j, r)

\* The commands of command_playlist, command_album and command_artist: the
\* cells whose completions are checked against the deferred identity.
Next ==
    \/ \E l \in Links : LoadPlaylistDetail(l)
    \/ \E l \in Links : LoadAlbumDetail(l)
    \/ \E l \in Links : LoadArtistDetail(l)
    \/ Workers
    \/ UpdatePlaylistTracks
    \/ UpdateAlbumDetail
    \/ UpdateArtistDetail
    \/ UpdateArtistAlbums
    \/ UpdateArtistTopTracks
    \/ UpdateArtistRelated

Spec == Init /\ [][Next]_vars

\* Delegate::command with every fetch-dispatching command of the Delegate.
NextDelegate ==
    \/ \E l \in Links : RequestData(l)
    \/ \E l \in Links : LoadPlaylistDetail(l)
    \/ \E l \in Links : LoadAlbumDetail(l)
    \/ \E l \in Links : LoadArtistDetail(l)
    \/ \E l \in Links : LoadSearchResults(l)
    \/ Workers
    \/ \E j \in BagToSet(workers) : \E r \in Results(j.link) : ImageWorkerFinish(j, r)
    \/ ProvideData
    \/ UpdatePlaylistTracks
    \/ UpdateAlbumDetail
    \/ UpdateArtistDetail
    \/ UpdateArtistAlbums
    \/ UpdateArtistTopTracks
    \/ UpdateArtistRelated
    \/ UpdateSearchResults

SpecDelegate == Init /\ [][NextDelegate]_vars

\* One identity for every fetch.
OneLink == "a"

\* The threads of image fetches.
ImageWorkers ==
    \E j \in BagToSet(workers) : \E r \in Results(j.link) : ImageWorkerFinish(j, r)

\* The steps of the consumer thread that dispatch fetches.
Dispatch ==
    \/ RequestData(OneLink)
    \/ LoadPlaylistDetail(OneLink)
    \/ LoadAlbumDetail(OneLink)
    \/ LoadArtistDetail(OneLink)
    \/ LoadSearchResults(OneLink)
    \/ LoadSavedTracks
    \/ LoadSavedAlbums

\* The steps of the consumer thread that handle the command at the head of
\* the event queue.
Handle ==
    \/ ProvideData
    \/ UpdatePlaylistTracks
    \/ UpdateAlbumDetail
    \/ UpdateArtistDetail
    \/ UpdateArtistAlbums
    \/ UpdateArtistTopTracks
    \/ UpdateArtistRelated
    \/ UpdateSearchResults
    \/ UpdateSavedTracks
    \/ UpdateSavedAlbums

\* Delegate::command with the commands of the library, every fetch for the
\* same identity.
NextConsumer ==
    \/ Dispatch
    \/ Workers
    \/ ImageWorkers
    \/ Handle

SpecConsumer == Init /\ [][NextConsumer]_vars

\* The threads of saves and unsaves.
SaveWorkers ==
    \E j \in BagToSet(workers) : \E r \in Results(j.link) : SaveWorkerFinish(j, r)

\* Delegate::command_library.
NextLibrary ==
    \/ LoadSavedTracks
    \/ LoadSavedAlbums
    \/ \E id \in Items : SaveTrack(id)
    \/ \E id \in Items : UnsaveTrack(id)
    \/ \E id \in Items : SaveAlbum(id)
    \/ \E id \in Items : UnsaveAlbum(id)
    \/ Workers
    \/ SaveWorkers
    \/ UpdateSavedTracks
    \/ UpdateSavedAlbums

SpecLibrary == Init /\ [][NextLibrary]_vars

\* The Delegate with the command of the playback, under fair scheduling:
\* every API call returns and its thread goes on to submit, and the consumer
\* handles the command at the head of the event queue.
NextLive ==
    \/ Dispatch
    \/ PlaybackPlaying(OneLink)
    \/ Workers
    \/ ImageWorkers
    \/ Handle
    \/ UpdateAudioAnalysis

Fairness ==
    /\ WF_vars(Workers)
    /\ WF_vars(ImageWorkers)
    /\ WF_vars(Handle \/ UpdateAudioAnalysis)

SpecLive == Init /\ [][NextLive]_vars /\ Fairness

---------------------------------------------------------------------------
(* Claims about the completion handlers. *)

Settled(p) == p.state \in {"Resolved", "Rejected"}

\* The payload or error a settled cell holds comes from a fetch for the
\* identity the cell was deferred with last.
HoldsOwn(cell) ==
    /\ data[cell].state = "Deferred" => data[cell].def = owner[cell]
    /\ Settled(data[cell]) => Origin(data[cell].val) = owner[cell]

\* C1: after defer(A) and then defer(B), A # B, a completion carrying A
\* leaves a gated cell as it is: in every reachable state each gated cell
\* is Deferred on the identity of its last defer, or Resolved or Rejected
\* with a payload fetched for that identity, never with A's.
C1_StaleCompletionNeverApplied == \A c \in GatedCells : HoldsOwn(c)

\* A completion of a superseded identity was handled while its cell was
\* Deferred on the newer identity, and a gated cell is still Deferred.
C1_Witness ==
    /\ dropped = "Deferred"
    /\ \E c \in GatedCells : data[c].state = "Deferred"

\* C2: a completion handled while its gated cell is already Resolved or
\* Rejected (the newer identity's completion came first) is discarded: the
\* cell keeps exactly the state it had.
C2_SettledCellKeepsState ==
    [][\A c \in GatedCells :
          (Receive(UpdateOf(c)) /\ Settled(data[c]) /\ queue' = Tail(queue))
              => data'[c] = data[c]]_vars

\* A completion of a superseded identity found its cell Resolved or Rejected
\* by the newer identity's completion.
C2_Witness ==
    /\ dropped \in {"Resolved", "Rejected"}
    /\ \E c \in GatedCells : Settled(data[c]) /\ Origin(data[c].val) = owner[c]

ArtistCells == {"artist.artist", "artist.top_tracks",
                "artist.related_artists", "artist.albums"}

\* What the handler of cell c puts in c for the completion m it applies.
Applied(c, m) ==
    CASE c = "artist.top_tracks" -> MapTracks("ArtistTracks", m.link, m.result)
      [] c = "playlist.tracks" -> MapTracks("PlaylistTracks", m.link, m.result)
      [] OTHER -> m.result

\* C17: LOAD_ARTIST_DETAIL defers the four cells of the artist on the link
\* and spawns one fetch for each; a completion of one of the four kinds
\* leaves every other cell as it was, and its own cell, if Deferred on the
\* link of the completion, becomes Resolved with the payload or Rejected
\* with the error of that completion; a cell of the artist leaves Deferred
\* in no other step.
C17_ArtistCellsAreIndependent ==
    [][/\ \A l \in Links :
              LoadArtistDetail(l)
                  => \A c \in ArtistCells :
                         /\ data'[c] = Deferred(l)
                         /\ CopiesIn(Job(UpdateOf(c), l), workers')
                                = CopiesIn(Job(UpdateOf(c), l), workers) + 1
       /\ \A c \in ArtistCells :
              /\ (Receive(UpdateOf(c)) /\ queue' = Tail(queue))
                     => /\ \A d \in Cells \ {c} : data'[d] = data[d]
                        /\ is_deferred(data[c], Head(queue).link)
                               => data'[c] =
                                     IF Head(queue).result.ok
                                     THEN Resolved(Applied(c, Head(queue)).val)
                                     ELSE Rejected(Head(queue).link,
                                                   Head(queue).result.val)
              /\ (data[c].state = "Deferred" /\ Settled(data'[c]))
                     => Receive(UpdateOf(c)) /\ queue' = Tail(queue)]_vars

\* The four fetches of one LOAD_ARTIST_DETAIL ended two in success and two
\* in failure, and each cell holds the outcome of its own.
C17_Witness ==
    /\ \A c \in ArtistCells : owner[c] = "a"
    /\ data["artist.artist"].state = "Rejected"
    /\ data["artist.top_tracks"].state = "Resolved"
    /\ data["artist.related_artists"].state = "Rejected"
    /\ data["artist.albums"].state = "Resolved"

\* A thread ends in this step.
WorkerEnds == \E j \in BagToSet(workers) : CopiesIn(j, workers') < CopiesIn(j, workers)

\* Room for n more threads and one more command.
Room(n) == loads < MaxLoads /\ Threads + n <= MaxThreads

\* C18: whatever threads are still running, the command at the head of the
\* event queue can be handled and every fetch-dispatching command within
\* the bounds can be handled; a step of the consumer ends no thread, and
\* the step in which a thread ends (its API call has returned) changes
\* nothing of the consumer's state.
C18_ConsumerNeverWaits ==
    /\ [](/\ queue # <<>> => ENABLED Handle
          /\ Room(1) =>
                 /\ ENABLED LoadPlaylistDetail(OneLink)
                 /\ ENABLED LoadAlbumDetail(OneLink)
                 /\ ENABLED LoadSearchResults(OneLink)
                 /\ ENABLED LoadSavedTracks
                 /\ ENABLED LoadSavedAlbums
                 /\ (Len(queue) < MaxQueue \/ ~lru_contains(image_cache, OneLink))
                        => ENABLED RequestData(OneLink)
          /\ Room(4) => ENABLED LoadArtistDetail(OneLink))
    /\ [][/\ WorkerEnds => UNCHANGED <<data, image_cache, loads>>
          /\ (Dispatch \/ Handle) => ~WorkerEnds]_vars

\* Three threads of an artist are still running; a completion has been
\* handled and a second command dispatched meanwhile, and another
\* completion is waiting.
C18_Witness ==
    /\ loads = 2
    /\ CopiesIn(Job("UPDATE_ARTIST_ALBUMS", OneLink), workers) = 1
    /\ CopiesIn(Job("UPDATE_ARTIST_RELATED", OneLink), workers) = 1
    /\ CopiesIn(Job("UPDATE_ARTIST_TOP_TRACKS", OneLink), workers) = 1
    /\ Settled(data["artist.artist"])
    /\ queue # <<>> /\ Head(queue).cmd = "UPDATE_SEARCH_RESULTS"

\* The command this step adds to the event queue.
Submitted == queue'[Len(queue')]

\* C19: a command joins the event queue only as the completion of a thread
\* that ends in the same step, one command for one thread and of the kind
\* and identity of its fetch, or as the reply of REQUEST_DATA for a cached
\* location; a thread that ends is gone and submits nothing more, and
\* threads are added by fetch-dispatching commands only.
C19_OneCompletionPerFetch ==
    [][/\ BagCardinality(workers') < BagCardinality(workers)
              => \E j \in BagToSet(workers) :
                     /\ workers' = workers (-) SetToBag({j})
                     /\ \/ queue' = queue
                        \/ /\ queue' = Append(queue, Submitted)
                           /\ Submitted.cmd = j.cmd
                           /\ Submitted.link \in {j.link, None}
       /\ Len(queue') > Len(queue)
              => /\ queue' = Append(queue, Submitted)
                 /\ \/ BagCardinality(workers') = BagCardinality(workers) - 1
                    \/ /\ RequestData(OneLink)
                       /\ lru_contains(image_cache, OneLink)
                       /\ Submitted.cmd = "PROVIDE_DATA"
                       /\ workers' = workers
       /\ BagCardinality(workers') > BagCardinality(workers) => Dispatch
       /\ BagCardinality(workers') = BagCardinality(workers)
              => workers' = workers]_vars

\* The thread of the artist fetch has submitted its completion and ended;
\* the three other threads of the artist are running.
C19_Witness ==
    /\ Len(queue) = 1
    /\ queue[1].cmd = "UPDATE_ARTIST_DETAIL"
    /\ CopiesIn(Job("UPDATE_ARTIST_DETAIL", OneLink), workers) = 0
    /\ BagCardinality(workers) = 3
    /\ data["artist.artist"].state = "Deferred"

\* A Resolved or Rejected cell among cs changes in no step but a defer.
SettledUntilDeferred(cs) ==
    \A c \in cs :
        (Settled(data[c]) /\ data'[c] # data[c]) => data'[c].state = "Deferred"

\* C20: every cell (the gated cells, the search results, the saved tracks
\* and the saved albums), once Resolved or Rejected, keeps its state and its
\* payload until it is deferred again: no second completion is applied to
\* it, in whatever number and order completions are delivered.
C20_SettledCellChangesOnlyByDefer == [][SettledUntilDeferred(Cells)]_vars

\* Cell c does not stay Deferred forever.
LeavesPending(c) == []<>(data[c].state # "Deferred")

\* C21: under fair scheduling of the threads and of the consumer, with
\* every API call returning, no cell that a command handler defers
\* (playlist, playlist tracks, album, the four cells of the artist, search
\* results, saved tracks and albums, audio analysis) stays Deferred forever.
C21_NoCellStaysPending == \A c \in Cells : LeavesPending(c)

\* The thread of a save or unsave ends in this step.
SaveWorkerEnds ==
    \E j \in BagToSet(workers) :
        j.cmd \in SaveCmds /\ CopiesIn(j, workers') < CopiesIn(j, workers)

\* C22: a save (unsave) command puts the item in (takes it out of) the
\* saved set in the step that handles it, while the thread of its remote
\* call is still running; the step in which that thread ends, whether the
\* call succeeded or failed, changes no state of the consumer and submits
\* no command.
C22_SaveIsLocalAndNeverRolledBack ==
    [][/\ \A id \in Items :
              /\ SaveTrack(id)
                     => /\ Item(id) \in data'["common_ctx.saved_tracks"]
                        /\ BagIn(Job("SAVE_TRACK", id), workers')
              /\ UnsaveTrack(id)
                     => /\ Item(id) \notin data'["common_ctx.saved_tracks"]
                        /\ BagIn(Job("UNSAVE_TRACK", id), workers')
              /\ SaveAlbum(id)
                     => /\ Item(id) \in data'["common_ctx.saved_albums"]
                        /\ BagIn(Job("SAVE_ALBUM", id), workers')
              /\ UnsaveAlbum(id)
                     => /\ Item(id) \notin data'["common_ctx.saved_albums"]
                        /\ BagIn(Job("UNSAVE_ALBUM", id), workers')
       /\ SaveWorkerEnds => UNCHANGED <<data, queue, image_cache, loads>>]_vars

\* Track t1 was saved and album t2 saved, both threads have ended, and
\* both items are still in the saved sets.
C22_Witness ==
    /\ loads = 2
    /\ workers = EmptyBag
    /\ queue = <<>>
    /\ data["common_ctx.saved_tracks"] = {Item("t1")}
    /\ data["common_ctx.saved_albums"] = {Item("t2")}

SavedCells == {"library.saved_tracks", "library.saved_albums"}

\* The fetches of a saved cell that have not been handled: threads running
\* and completions in the event queue.
InFlight(cell) ==
    CopiesIn(Job(UpdateOf(cell), Default), workers)
        + Cardinality({i \in 1..Len(queue) : queue[i].cmd = UpdateOf(cell)})

\* C28: at most one fetch of the saved tracks (saved albums) is in flight;
\* LOAD_SAVED_TRACKS (LOAD_SAVED_ALBUMS) handled while the cell is Empty or
\* Rejected defers the cell and spawns exactly one thread; handled while the
\* cell is Deferred or Resolved it changes no state and spawns nothing.
C28_SavedFetchOnlyWhenEmptyOrRejected ==
    /\ [](\A c \in SavedCells :
              /\ InFlight(c) <= 1
              /\ InFlight(c) = 1 <=> data[c].state = "Deferred")
    /\ [][\A c \in SavedCells :
              LoadSaved(c)
                  => IF data[c].state \in {"Empty", "Rejected"}
                     THEN /\ data'[c] = Deferred(Default)
                          /\ workers' = workers (+) SetToBag({Job(UpdateOf(c), Default)})
                          /\ InFlight(c) = 0
                     ELSE UNCHANGED <<data, workers, queue>>]_vars

\* The saved tracks are being fetched and a second LOAD_SAVED_TRACKS has
\* been handled: still one thread.
C28_Witness ==
    /\ loads = 2
    /\ data["library.saved_tracks"].state = "Deferred"
    /\ data["library.saved_albums"].state = "Empty"
    /\ data["common_ctx.saved_tracks"] = {}
    /\ data["common_ctx.saved_albums"] = {}
    /\ workers = SetToBag({Job("UPDATE_SAVED_TRACKS", Default)})

\* C3: after LOAD_SEARCH_RESULTS(q1) and then LOAD_SEARCH_RESULTS(q2), the
\* search cell never holds the results or the error of q1's fetch.
C3_SearchHoldsCurrentQuery == HoldsOwn("search.results")

\* C4: no worker thread ends in a panic when its fetch fails.
C4_NoWorkerPanics == panicked = {}

\* The saved set a completion leaves: the items of the list delivered, or
\* none when the fetch failed.
Delivered(m) == IF m.result.ok THEN set_saved(m.result.val) ELSE set_saved(NoItems)

\* C32: handling UPDATE_SAVED_TRACKS (UPDATE_SAVED_ALBUMS) leaves the saved
\* tracks (albums) of common_ctx equal to the list delivered, or empty when
\* the fetch failed, whatever the saves and unsaves handled before it; an
\* item saved locally that is not in the list delivered is no longer saved.
C32_CompletionReplacesTheSavedSet ==
    [][/\ UpdateSavedTracks
              => /\ data'["common_ctx.saved_tracks"] = Delivered(Head(queue))
                 /\ \A id \in Items :
                        Item(id) \notin data'["common_ctx.saved_tracks"]
                 /\ data'["common_ctx.saved_albums"] = data["common_ctx.saved_albums"]
       /\ UpdateSavedAlbums
              => /\ data'["common_ctx.saved_albums"] = Delivered(Head(queue))
                 /\ \A id \in Items :
                        Item(id) \notin data'["common_ctx.saved_albums"]
                 /\ data'["common_ctx.saved_tracks"] = data["common_ctx.saved_tracks"]]_vars

\* A track was saved, its remote call is still under way, and the
\* completion of the fetch of the saved tracks has been handled: the saved
\* tracks are the list delivered, without the track saved locally.
C32_Witness ==
    /\ data["library.saved_tracks"].state = "Resolved"
    /\ BagIn(Job("SAVE_TRACK", "t1"), workers)
    /\ data["common_ctx.saved_tracks"] # {}
    /\ Item("t1") \notin data["common_ctx.saved_tracks"]

---------------------------------------------------------------------------
(* WebApi::with_retry and WebApi::load (client.rs 77-107).                 *)
(*                                                                         *)
(* The endpoint's answers to the successive sends of one request are an    *)
(* input: a script, drawn at the start. An answer is a transport failure   *)
(* or a response with a status, a Retry-After header and a body.           *)

\* Length of the script of answers.
MaxAnswers == 3

\* Header values are sequences of characters; NoHeader: the header is absent.
NoHeader == <<"absent">>

RetryAfterHeaders ==
    {NoHeader, <<>>, <<"0">>, <<"1">>, <<"1", "2">>, <<"+", "3">>,
     <<"-", "1">>, <<"x">>, <<"1", ".", "5">>, <<"7", "s">>}

Transport == [kind |-> "transport", status |-> 0, retry_after |-> NoHeader, json |-> FALSE]

Response(st, h, j) == [kind |-> "response", status |-> st, retry_after |-> h, json |-> j]

\* json: whether the body deserializes as the type the caller asks for.
Answers ==
    {Transport}
    \cup {Response(st, NoHeader, j) : st \in {200, 404, 500}, j \in BOOLEAN}
    \cup {Response(429, h, FALSE) : h \in RetryAfterHeaders}

Scripts == UNION {[1..n -> Answers] : n \in 1..MaxAnswers}

Digits == <<"0", "1", "2", "3", "4", "5", "6", "7", "8", "9">>

IsDigit(ch) == \E d \in 1..10 : Digits[d] = ch

DigitValue(ch) == (CHOOSE d \in 1..10 : Digits[d] = ch) - 1

RECURSIVE DecimalValue(_)
DecimalValue(cs) ==
    IF Len(cs) = 0 THEN 0
    ELSE DecimalValue(SubSeq(cs, 1, Len(cs) - 1)) * 10 + DigitValue(cs[Len(cs)])

\* str::parse::<u64>().ok(): an optional "+", then one digit or more. The
\* Option is a sequence: <<n>> for Some(n), <<>> for None (a minus sign, a
\* letter, a dot or no digit at all does not parse).
ParseSecs(h) ==
    LET cs == IF Len(h) > 0 /\ h[1] = "+" THEN Tail(h) ELSE h
    IN  IF Len(cs) > 0 /\ \A i \in 1..Len(cs) : IsDigit(cs[i])
        THEN <<DecimalValue(cs)>>
        ELSE <<>>

\* client.rs 85: unwrap_or(2).
DEFAULT_RETRY_AFTER_SECS == 2

\* client.rs 81: the status that is retried.
TOO_MANY_REQUESTS == 429

\* client.rs 82-85: response.header("Retry-After").and_then(|secs|
\* secs.parse().ok()).unwrap_or(2).
retry_after_secs(response) ==
    LET parsed == IF response.retry_after = NoHeader
                  THEN <<>>
                  ELSE ParseSecs(response.retry_after)
    IN  IF Len(parsed) = 0 THEN DEFAULT_RETRY_AFTER_SECS ELSE parsed[1]

\* Result<Response, Error>.
OkResponse(r) == [ok |-> TRUE, response |-> r]

ErrOf(what) == [ok |-> FALSE, response |-> what]

\* The closure || Ok(request.clone().call()?) of client.rs 105 and 122.
\* ureq's Request::call returns Err(ureq::Error::Transport) when the request
\* cannot be sent, and Err(ureq::Error::Status(code, response)) for every
\* response whose status is 400 or more, 429 included; the ? operator turns
\* either into Error::WebApiError (client.rs 421-425).
call(answer) ==
    IF answer.kind = "transport" THEN ErrOf("transport")
    ELSE IF answer.status >= 400 THEN ErrOf("status")
    ELSE OkResponse(answer)

\* with_retry that starts over after an Err of f() as well.
with_retry_iteration_RetryOnErr(r, answer) ==
    LET response == call(answer)
        sent == [r EXCEPT !.sends = @ + 1]
    IN  IF ~response.ok
        THEN [sent EXCEPT !.sleeps = Append(@, DEFAULT_RETRY_AFTER_SECS)]
        ELSE [sent EXCEPT !.pc = "returned", !.outcome = response]

\* One iteration of the loop of with_retry (client.rs 78-92) in the call r,
\* the endpoint answering `answer`: f()? returns the Err of the closure;
\* a 429 response sleeps and loops; any other response breaks with Ok
\* (pc "returned": with_retry has returned the response to its caller).
with_retry_iteration(r, answer) ==
    LET response == call(answer)
        sent == [r EXCEPT !.sends = @ + 1]
    IN  IF ~response.ok
        THEN [sent EXCEPT !.pc = "done", !.outcome = response]
        ELSE IF response.response.status = TOO_MANY_REQUESTS
        THEN [sent EXCEPT !.sleeps = Append(@, retry_after_secs(response.response))]
        ELSE [sent EXCEPT !.pc = "returned", !.outcome = response]

InitRetry ==
    /\ DelegateInit
    /\ paging = Idle
    /\ caching = Idle
    /\ retry \in {[pc |-> "with_retry", script |-> sc, sends |-> 0,
                   sleeps |-> <<>>, outcome |-> None] : sc \in Scripts}

\* The next send of the request: one iteration of with_retry.
WithRetry ==
    /\ retry.pc = "with_retry"
    /\ retry.sends < Len(retry.script)
    /\ retry' = with_retry_iteration(retry, retry.script[retry.sends + 1])
    /\ UNCHANGED <<dvars, paging, caching>>

\* WebApi::load (client.rs 105): into_json()? on the response with_retry
\* returned; a body that does not deserialize is an Err.
IntoJson ==
    /\ retry.pc = "returned"
    /\ retry' = [retry EXCEPT !.pc = "done",
                              !.outcome = IF retry.outcome.response.json
                                          THEN retry.outcome
                                          ELSE ErrOf("json")]
    /\ UNCHANGED <<dvars, paging, caching>>

NextRetry == WithRetry \/ IntoJson

SpecRetry == InitRetry /\ [][NextRetry]_vars

---------------------------------------------------------------------------
(* Claims about with_retry. *)

\* The answers of the script that the call has received.
Received == 1..retry.sends

Is429(answer) == answer.kind = "response" /\ answer.status = 429

\* A transport failure, or a response that is neither 2xx nor 429.
IsFailure(answer) ==
    \/ answer.kind = "transport"
    \/ answer.kind = "response" /\ answer.status # 429
                                 /\ ~(answer.status \in 200..299)

\* The script is k answers of 429 and then a 200 response, k >= 0.
RateLimitedThenOk(sc, k) ==
    /\ Len(sc) = k + 1
    /\ \A i \in 1..k : Is429(sc[i])
    /\ sc[k + 1].kind = "response" /\ sc[k + 1].status = 200

\* C5: when the endpoint answers 429 k times and then 200, the request is
\* sent k + 1 times, with_retry sleeps k times and returns the last response,
\* no error: the call cannot end with fewer sends, and does not end in Err.
C5_RetriedUntilAdmitted ==
    \A k \in 0..(MaxAnswers - 1) :
        (RateLimitedThenOk(retry.script, k) /\ retry.pc \in {"returned", "done"})
            => /\ retry.sends = k + 1
               /\ Len(retry.sleeps) = k
               /\ retry.pc = "returned" => retry.outcome = OkResponse(retry.script[k + 1])

\* The delay the claim gives for a 429 response: the header's value when it
\* is present and a non-negative integer, 2 seconds otherwise.
ClaimedDelay(answer) ==
    LET h == answer.retry_after
    IN  IF h # NoHeader /\ Len(ParseSecs(h)) > 0 THEN ParseSecs(h)[1] ELSE 2

\* C6: every 429 response received is followed by a sleep of the claimed
\* delay, before anything else is done with the request.
C6_SleepsAsRetryAfterSays ==
    \A i \in Received :
        Is429(retry.script[i])
            => /\ i <= Len(retry.sleeps)
               /\ retry.sleeps[i] = ClaimedDelay(retry.script[i])

---------------------------------------------------------------------------
(* WebApi::load_all_pages (client.rs 137-165).                             *)
(* The server holds the items 1..total of one collection and answers a     *)
(* (limit, offset) request with the matching slice; it may serve fewer     *)
(* items than asked (its own maximum page size, cap) and then reports the  *)
(* limit it applied. Each page is fetched with load, which may fail.       *)

\* Largest collection of the exhaustive range of totals.
MaxTotal == 201

\* A collection far larger than the cap on the result.
BigTotal == 1000

Totals == (0..MaxTotal) \cup {BigTotal}

\* Maximum page sizes of the server; 50 and more serves what is asked.
ServerLimits == {50, 30, 20}

Min(a, b) == IF a <= b THEN a ELSE b

Max(a, b) == IF a >= b THEN a ELSE b

\* Page<T> { items, total, limit, offset } the server returns.
Page(server, limit, offset) ==
    LET served == Min(limit, server.cap)
        n == Max(0, Min(served, server.total - offset))
    IN  [items |-> [i \in 1..n |-> offset + i],
         total |-> server.total, limit |-> served, offset |-> offset]

\* client.rs 143.
PAGED_ITEMS_LIMIT == 200

\* The loop goes on whatever the number of items accumulated.
more_pages_Uncapped(page, results) == page.total > Len(results)

\* client.rs 157: the condition to request another page.
more_pages(page, results) ==
    page.total > Len(results) /\ Len(results) < PAGED_ITEMS_LIMIT

\* The next request repeats the offset of the page received.
next_offset_Same(page) == page.offset

\* client.rs 159: offset = page.offset + page.limit.
next_offset(page) == page.offset + page.limit

\* An iteration that goes on with the limit and the offset it assumes: the
\* limit it asked and the offset it asked plus that limit.
load_all_pages_iteration_AssumedLimit(p, page) ==
    LET results == p.results \o page.items
        sent == [p EXCEPT !.requests = Append(@, <<p.limit, p.offset>>),
                          !.results = results]
    IN  IF more_pages(page, results)
        THEN [sent EXCEPT !.offset = p.offset + p.limit]
        ELSE [sent EXCEPT !.pc = "done", !.outcome = [ok |-> TRUE, val |-> results]]

\* One iteration of the loop of load_all_pages (client.rs 148-163) when load
\* returned `page`: the request sent had the current limit and offset.
load_all_pages_iteration(p, page) ==
    LET results == p.results \o page.items
        sent == [p EXCEPT !.requests = Append(@, <<p.limit, p.offset>>),
                          !.results = results]
    IN  IF more_pages(page, results)
        THEN [sent EXCEPT !.limit = page.limit, !.offset = next_offset(page)]
        ELSE [sent EXCEPT !.pc = "done", !.outcome = [ok |-> TRUE, val |-> results]]

\* A failed page that ends the call with the items accumulated so far.
load_all_pages_failed_Partial(p) ==
    [p EXCEPT !.requests = Append(@, <<p.limit, p.offset>>),
              !.pc = "done", !.outcome = [ok |-> TRUE, val |-> p.results]]

\* client.rs 153: load(req)? failed; the error is returned and the items
\* accumulated so far are dropped with the local vector.
load_all_pages_failed(p) ==
    [p EXCEPT !.requests = Append(@, <<p.limit, p.offset>>),
              !.results = <<>>,
              !.pc = "done", !.outcome = [ok |-> FALSE, val |-> <<>>]]

\* client.rs 145-147: results empty, limit 50, offset 0.
InitPages ==
    /\ DelegateInit
    /\ retry = Idle
    /\ caching = Idle
    /\ paging \in {[pc |-> "load_all_pages",
                    server |-> [total |-> t, cap |-> c],
                    results |-> <<>>, limit |-> 50, offset |-> 0,
                    requests |-> <<>>, outcome |-> None]
                   : t \in Totals, c \in ServerLimits}

PageLoaded ==
    /\ paging.pc = "load_all_pages"
    /\ paging' = load_all_pages_iteration(
                     paging, Page(paging.server, paging.limit, paging.offset))
    /\ UNCHANGED <<dvars, retry, caching>>

PageFailed ==
    /\ paging.pc = "load_all_pages"
    /\ paging' = load_all_pages_failed(paging)
    /\ UNCHANGED <<dvars, retry, caching>>

NextPages == PageLoaded \/ PageFailed

SpecPages == InitPages /\ [][NextPages]_vars

---------------------------------------------------------------------------
(* The fetch of LOAD_PLAYLIST_DETAIL: its thread calls get_playlist_tracks  *)
(* (client.rs 338-351), which is load_all_pages, and submits the result.    *)

\* Items of the playlist fetched.
PlaylistTotal == 120

\* The server serves the playlist 50 or 30 items a page.
PlaylistServers == {[total |-> PlaylistTotal, cap |-> c] : c \in {50, 30}}

\* client.rs 338-351: the list of load_all_pages, or its error (every item
\* of the model has a track).
get_playlist_tracks(p) ==
    IF p.outcome.ok
    THEN [ok |-> TRUE, val |-> <<"data", p.link, p.outcome.val>>]
    ELSE [ok |-> FALSE, val |-> <<"error", p.link>>]

\* The thread of job j enters load_all_pages (client.rs 145-147).
GetPlaylistTracks(j) ==
    /\ BagIn(j, workers)
    /\ j.cmd = "UPDATE_PLAYLIST_TRACKS"
    /\ paging.pc \in {"idle", "delivered"}
    /\ \E server \in PlaylistServers :
           paging' = [pc |-> "load_all_pages", server |-> server,
                      results |-> <<>>, limit |-> 50, offset |-> 0,
                      requests |-> <<>>, outcome |-> None, link |-> j.link]
    /\ UNCHANGED <<dvars, retry, caching>>

\* delegate.rs 184-186: the thread submits (link, result) and ends.
PlaylistTracksFetched ==
    /\ paging.pc = "done"
    /\ BagIn(Job("UPDATE_PLAYLIST_TRACKS", paging.link), workers)
    /\ Len(queue) < MaxQueue
    /\ workers' = workers (-) SetToBag({Job("UPDATE_PLAYLIST_TRACKS", paging.link)})
    /\ queue' = submit_command(queue,
                    Completion(Job("UPDATE_PLAYLIST_TRACKS", paging.link),
                               get_playlist_tracks(paging)))
    /\ paging' = [paging EXCEPT !.pc = "delivered"]
    /\ UNCHANGED <<data, image_cache, loads, panicked, owner, dropped, inserted>>
    /\ UNCHANGED <<retry, caching>>

NextPlaylist ==
    \/ LoadPlaylistDetail(OneLink)
    \/ \E j \in BagToSet(workers) : GetPlaylistTracks(j)
    \/ PageLoaded
    \/ PageFailed
    \/ PlaylistTracksFetched
    \/ UpdatePlaylistTracks

SpecPlaylist == Init /\ [][NextPlaylist]_vars

---------------------------------------------------------------------------
(* The loop of load_all_pages against a server whose reported total is     *)
(* larger than the items it serves: past the items it holds it answers     *)
(* with a successful page of zero items that reports limit 0. Every page   *)
(* request succeeds. The state is the variables of the loop (results,      *)
(* limit, offset); the requests sent are not recorded, so an iteration     *)
(* that leaves the three variables as they were is a step that changes     *)
(* nothing, and the loop that repeats it is a behaviour that stays in its  *)
(* state forever.                                                          *)

\* Largest total such a server reports.
StaleTotal == 60

\* total is what the server reports, held the items it serves.
StaleServers ==
    {[total |-> t, cap |-> c, held |-> h] :
        t \in 0..StaleTotal, c \in ServerLimits, h \in 0..StaleTotal}

\* Page<T> { items, total, limit, offset } such a server returns.
StalePage(server, limit, offset) ==
    LET served == Min(limit, server.cap)
        n == Max(0, Min(served, server.held - offset))
    IN  [items |-> [i \in 1..n |-> offset + i],
         total |-> server.total,
         limit |-> IF n = 0 THEN 0 ELSE served,
         offset |-> offset]

\* client.rs 145-147: results empty, limit 50, offset 0.
InitLoop ==
    /\ DelegateInit
    /\ retry = Idle
    /\ caching = Idle
    /\ paging \in {[pc |-> "load_all_pages", server |-> server,
                    results |-> <<>>, limit |-> 50, offset |-> 0,
                    requests |-> <<>>, outcome |-> None]
                   : server \in {x \in StaleServers : x.held <= x.total}}

\* One iteration of the loop (client.rs 148-163) with a successful page.
PageServed ==
    /\ paging.pc = "load_all_pages"
    /\ paging' = [load_all_pages_iteration(
                      paging, StalePage(paging.server, paging.limit, paging.offset))
                  EXCEPT !.requests = <<>>]
    /\ UNCHANGED <<dvars, retry, caching>>

\* The loop under fair scheduling: load returns and the iteration is run.
SpecLoop == InitLoop /\ [][PageServed]_vars /\ WF_vars(PageServed)

---------------------------------------------------------------------------
(* Claims about load_all_pages. *)

Returned == paging.pc = "done" /\ paging.outcome.ok

\* The server serves the slice that is asked for: no page size of its own
\* below the 50 items the client asks.
ServesAsAsked == paging.pc # "idle" /\ paging.server.cap >= 50

\* C8: against a server of t items, 1 <= t <= 200, that serves every
\* (limit, offset) request as asked, the list returned is the items 1..t in
\* order, and it took ceil(t/50) requests, the i-th for the 50 items from
\* offset 50 * (i - 1).
C8_AllItemsInOrder ==
    (Returned /\ ServesAsAsked /\ paging.server.total \in 1..200)
        => /\ paging.outcome.val = [i \in 1..paging.server.total |-> i]
           /\ Len(paging.requests) = (paging.server.total + 49) \div 50
           /\ \A i \in 1..Len(paging.requests) :
                  paging.requests[i] = <<50, 50 * (i - 1)>>

\* 130 items returned after three requests.
C8_Witness ==
    /\ Returned /\ ServesAsAsked
    /\ paging.server.total = 130
    /\ Len(paging.requests) = 3
    /\ Len(paging.outcome.val) = 130

\* C9: a step taken when 200 items or more are accumulated sends no page
\* request; and for a total of more than 200 served 50 at a time the call
\* returns 200 items after exactly 4 requests.
C9_NoRequestPastTheCap ==
    [][/\ (paging.pc # "idle" /\ Len(paging.results) >= 200)
              => paging'.requests = paging.requests
       /\ (paging'.pc = "done" /\ paging'.outcome.ok /\ paging.server.cap >= 50
                               /\ paging.server.total = BigTotal)
              => /\ Len(paging'.requests) = 4
                 /\ Len(paging'.outcome.val) = 200]_vars

\* The collection of BigTotal items, served 50 at a time, returned as 200
\* items.
C9_Witness ==
    /\ Returned /\ ServesAsAsked
    /\ paging.server.total = BigTotal
    /\ Len(paging.requests) = 4
    /\ Len(paging.outcome.val) = 200


\* The page the server returned to the i-th request.
PageReceived(i) == Page(paging.server, paging.requests[i][1], paging.requests[i][2])

\* C23: the first page request has limit 50 and offset 0; every later one
\* has the limit reported by the page received just before and the offset
\* reported by that page plus that limit.
C23_NextRequestFromThePageReceived ==
    paging.pc # "idle"
        => /\ Len(paging.requests) >= 1 => paging.requests[1] = <<50, 0>>
           /\ \A i \in 1..(Len(paging.requests) - 1) :
                  paging.requests[i + 1] =
                      <<PageReceived(i).limit,
                        PageReceived(i).offset + PageReceived(i).limit>>

\* A server that serves 30 items a page: the requests after the first ask
\* for 30 items, from offsets 30 and 60.
C23_Witness ==
    /\ paging.pc # "idle"
    /\ paging.server.cap = 30
    /\ paging.requests = << <<50, 0>>, <<30, 30>>, <<30, 60>> >>

\* The whole playlist, as the consumer's cell holds it.
WholePlaylist(l) ==
    Resolved(<<"PlaylistTracks", l, <<"data", l, [i \in 1..PlaylistTotal |-> i]>> >>)

\* C25: a page request that fails ends the call with the error and none of
\* the items accumulated, and no request follows it; the thread submits
\* that error, and the cell of the playlist tracks, when the completion is
\* applied, is Rejected; a Resolved cell holds the whole playlist, never
\* the items of the pages received before a failure.
C25_FailedPageFailsTheCall ==
    /\ [](data["playlist.tracks"].state = "Resolved"
              => data["playlist.tracks"] = WholePlaylist(OneLink))
    /\ [][/\ PageFailed
                 => /\ paging'.pc = "done"
                    /\ paging'.outcome = [ok |-> FALSE, val |-> <<>>]
                    /\ paging'.requests = Append(paging.requests,
                                                 <<paging.limit, paging.offset>>)
          /\ paging.pc \in {"done", "delivered"} /\ paging'.pc \in {"done", "delivered"}
                 => /\ paging'.requests = paging.requests
                    /\ paging'.outcome = paging.outcome
          /\ (PlaylistTracksFetched /\ ~paging.outcome.ok)
                 => queue'[Len(queue')].result = Err(paging.link)
          /\ (UpdatePlaylistTracks /\ ~Head(queue).result.ok
                                   /\ is_deferred(data["playlist.tracks"], Head(queue).link))
                 => data'["playlist.tracks"] =
                        Rejected(Head(queue).link, Head(queue).result.val)]_vars

\* Two pages were received and the third request failed: the cell of the
\* playlist tracks is Rejected.
C25_Witness ==
    /\ paging.pc = "delivered"
    /\ Len(paging.requests) = 3
    /\ ~paging.outcome.ok
    /\ queue = <<>>
    /\ loads = 1
    /\ data["playlist.tracks"].state = "Rejected"

\* C24: the list returned by load_all_pages has at most 200 items, whatever
\* the page sizes and the total the server reports.
C24_AtMostTheCapReturned == Returned => Len(paging.outcome.val) <= PAGED_ITEMS_LIMIT

\* The server serves every item of the total it reports.
ServesItsTotal == paging.server.held = paging.server.total

\* The call returns when the server serves every item of its total.
ReturnsWhenServed == ServesItsTotal => <>(paging.pc = "done")

\* C31: when every page request succeeds, load_all_pages returns after
\* finitely many of them, also against a server that answers with a page of
\* zero items reporting limit 0 and a total larger than the items
\* accumulated.
C31_LoadAllPagesReturns == <>(paging.pc = "done")

---------------------------------------------------------------------------
(* WebApi::load_cached (client.rs 111-133).                                *)
(* Calls run on worker threads and share the WebApiCache; a call is a hit  *)
(* (get, metadata, from_reader on the file opened) or a miss (with_retry,  *)
(* then read the body, deserialize it, cache.set). Entries are written     *)
(* whole (section 5 of the specification), so a hit reads one write.       *)

\* load_cached calls in one run.
MaxCalls == 3

\* (bucket, key) of get_album("a") and get_artist("a") (client.rs 198, 260).
CacheKeys == {<<"album", "a">>, <<"artist", "a">>}

\* The byte blobs an endpoint may serve for one resource.
Revisions == {"r1", "r2"}

\* The answers of the endpoint to a cached GET, one of each kind.
CacheAnswers ==
    {Transport, Response(404, NoHeader, FALSE), Response(429, NoHeader, FALSE),
     Response(429, <<"1">>, FALSE)}
    \cup {Response(200, NoHeader, j) : j \in BOOLEAN}

\* The body fetched for a key: the revision of the resource served, and
\* json, whether it deserializes as the type asked.
Body(k, response, rev) == [of |-> k, json |-> response.json, rev |-> rev]

\* WebApiCache::get: the file of the entry, <<>> when there is none or when
\* no base directory is configured.
cache_get(cache, k) == IF cache.base THEN cache.files[k] ELSE <<>>

\* WebApiCache::set at time t: best-effort, `stored` is whether the write
\* succeeded; a no-op when no base directory is configured.
cache_set(cache, k, body, t, stored) ==
    IF cache.base /\ stored
    THEN [cache EXCEPT !.files[k] = <<[body |-> body, mtime |-> t]>>]
    ELSE cache

\* Cached::cached(value, cached_at) and Cached::fresh(value).
Cached_cached(value, cached_at) ==
    [ok |-> TRUE, tag |-> "Cached", value |-> value, at |-> cached_at]

Cached_fresh(value) == [ok |-> TRUE, tag |-> "Fresh", value |-> value, at |-> 0]

Failed(what) == [ok |-> FALSE, tag |-> what, value |-> <<>>, at |-> 0]

\* A hit that tags the value as fresh.
load_cached_hit_Fresh(file, readable) ==
    IF ~readable THEN Failed("read")
    ELSE IF ~file.body.json THEN Failed("from_reader")
    ELSE Cached_fresh(file.body)

\* client.rs 118-120: the modification time and the content of the file
\* found; `readable` is whether metadata()?, modified()? and the read
\* succeed; from_reader fails on a content that does not deserialize.
load_cached_hit(file, readable) ==
    IF ~readable THEN Failed("read")
    ELSE IF ~file.body.json THEN Failed("from_reader")
    ELSE Cached_cached(file.body, file.mtime)

\* The entry is written under the bucket "album" whatever the bucket asked.
load_cached_store_OneBucket(st, i, readable, stored, rev) ==
    LET c == st.calls[i]
        body == Body(c.key, c.outcome.response, rev)
        written == st.cache.base /\ stored
        t == st.clock + 1
    IN  IF ~readable
        THEN [st EXCEPT !.calls[i].pc = "done", !.calls[i].result = Failed("io")]
        ELSE IF ~body.json
        THEN [st EXCEPT !.calls[i].pc = "done", !.calls[i].result = Failed("json")]
        ELSE [st EXCEPT !.cache = cache_set(@, <<"album", c.key[2]>>, body, t, stored),
                        !.clock = IF written THEN t ELSE @,
                        !.calls[i].pc = "done",
                        !.calls[i].wrote = IF written THEN t ELSE 0,
                        !.calls[i].result = Cached_fresh(body)]

\* The value is returned as read back from the cache after the set.
load_cached_store_ReadBack(st, i, readable, stored, rev) ==
    LET c == st.calls[i]
        body == Body(c.key, c.outcome.response, rev)
        written == st.cache.base /\ stored
        t == st.clock + 1
    IN  IF ~readable
        THEN [st EXCEPT !.calls[i].pc = "done", !.calls[i].result = Failed("io")]
        ELSE IF ~body.json
        THEN [st EXCEPT !.calls[i].pc = "done", !.calls[i].result = Failed("json")]
        ELSE [st EXCEPT !.cache = cache_set(@, c.key, body, t, stored),
                        !.clock = IF written THEN t ELSE @,
                        !.calls[i].pc = "done",
                        !.calls[i].wrote = IF written THEN t ELSE 0,
                        !.calls[i].result = Cached_cached(body, t)]

\* A set that wrote nothing is an error of the call.
load_cached_store_SetMustSucceed(st, i, readable, stored, rev) ==
    LET c == st.calls[i]
        body == Body(c.key, c.outcome.response, rev)
        written == st.cache.base /\ stored
        t == st.clock + 1
    IN  IF ~readable
        THEN [st EXCEPT !.calls[i].pc = "done", !.calls[i].result = Failed("io")]
        ELSE IF ~body.json
        THEN [st EXCEPT !.calls[i].pc = "done", !.calls[i].result = Failed("json")]
        ELSE IF ~written
        THEN [st EXCEPT !.calls[i].pc = "done", !.calls[i].result = Failed("set")]
        ELSE [st EXCEPT !.cache = cache_set(@, c.key, body, t, stored),
                        !.clock = t,
                        !.calls[i].pc = "done",
                        !.calls[i].wrote = t,
                        !.calls[i].result = Cached_fresh(body)]

\* The body is written to the cache before it is deserialized.
load_cached_store_SetBeforeParse(st, i, readable, stored, rev) ==
    LET c == st.calls[i]
        body == Body(c.key, c.outcome.response, rev)
        written == st.cache.base /\ stored
        t == st.clock + 1
    IN  IF ~readable
        THEN [st EXCEPT !.calls[i].pc = "done", !.calls[i].result = Failed("io")]
        ELSE [st EXCEPT !.cache = cache_set(@, c.key, body, t, stored),
                        !.clock = IF written THEN t ELSE @,
                        !.calls[i].pc = "done",
                        !.calls[i].wrote = IF written THEN t ELSE 0,
                        !.calls[i].result = IF body.json THEN Cached_fresh(body)
                                            ELSE Failed("json")]

\* client.rs 123-131 in call i: read the body (`readable`; rev is the
\* revision read), from_slice, cache.set, Ok(Cached::fresh(value)). The clock
\* is the time of the last write; wrote is the time of the write this call
\* made, 0 for none.
load_cached_store(st, i, readable, stored, rev) ==
    LET c == st.calls[i]
        body == Body(c.key, c.outcome.response, rev)
        written == st.cache.base /\ stored
        t == st.clock + 1
    IN  IF ~readable
        THEN [st EXCEPT !.calls[i].pc = "done", !.calls[i].result = Failed("io")]
        ELSE IF ~body.json
        THEN [st EXCEPT !.calls[i].pc = "done", !.calls[i].result = Failed("json")]
        ELSE [st EXCEPT !.cache = cache_set(@, c.key, body, t, stored),
                        !.clock = IF written THEN t ELSE @,
                        !.calls[i].pc = "done",
                        !.calls[i].wrote = IF written THEN t ELSE 0,
                        !.calls[i].result = Cached_fresh(body)]

\* A call of an endpoint for (bucket, key) as it begins; token is whether
\* access_token() returns a token to it (client.rs 48-54).
NewCall(k, now) ==
    [key |-> k, pc |-> "get", hit |-> FALSE, began |-> now, sends |-> 0,
     sleeps |-> <<>>, outcome |-> None, wrote |-> 0, result |-> Failed("none"),
     token |-> TRUE]

InitCache ==
    /\ DelegateInit
    /\ retry = Idle
    /\ paging = Idle
    /\ caching \in {[pc |-> "load_cached",
                     cache |-> [base |-> b, files |-> [k \in CacheKeys |-> <<>>]],
                     clock |-> 0, calls |-> <<>>] : b \in BOOLEAN}

\* A hit that cannot be read goes on as a miss and fetches.
LoadCachedHit_DegradesToFetch(k) ==
    /\ caching.pc = "load_cached"
    /\ Len(caching.calls) < MaxCalls
    /\ LET file == cache_get(caching.cache, k)
       IN  /\ Len(file) > 0
           /\ \E readable \in BOOLEAN :
                caching' = [caching EXCEPT !.calls = Append(@,
                    IF load_cached_hit(file[1], readable).ok
                    THEN [NewCall(k, caching.clock) EXCEPT
                             !.pc = "done", !.hit = TRUE,
                             !.result = load_cached_hit(file[1], readable)]
                    ELSE [NewCall(k, caching.clock) EXCEPT
                             !.pc = "with_retry", !.hit = TRUE])]
    /\ UNCHANGED <<dvars, retry, paging>>

\* client.rs 117-120: a call begins and finds the entry.
LoadCachedHit(k) ==
    /\ caching.pc = "load_cached"
    /\ Len(caching.calls) < MaxCalls
    /\ LET file == cache_get(caching.cache, k)
       IN  /\ Len(file) > 0
           /\ \E readable \in BOOLEAN :
                caching' = [caching EXCEPT !.calls = Append(@,
                    [NewCall(k, caching.clock) EXCEPT
                        !.pc = "done", !.hit = TRUE,
                        !.result = load_cached_hit(file[1], readable)])]
    /\ UNCHANGED <<dvars, retry, paging>>

\* client.rs 117, 121: a call begins and finds no entry.
LoadCachedMiss(k) ==
    /\ caching.pc = "load_cached"
    /\ Len(caching.calls) < MaxCalls
    /\ Len(cache_get(caching.cache, k)) = 0
    /\ caching' = [caching EXCEPT !.calls = Append(@,
                       [NewCall(k, caching.clock) EXCEPT !.pc = "with_retry"])]
    /\ UNCHANGED <<dvars, retry, paging>>

\* client.rs 122: one send of with_retry; its Err ends the call.
LoadCachedFetch(i) ==
    /\ caching.pc = "load_cached"
    /\ i \in 1..Len(caching.calls)
    /\ caching.calls[i].pc = "with_retry"
    /\ \E answer \in CacheAnswers :
         LET r == with_retry_iteration(caching.calls[i], answer)
         IN  caching' = [caching EXCEPT !.calls[i] =
                 IF r.pc = "done" THEN [r EXCEPT !.result = Failed(r.outcome.response)]
                 ELSE r]
    /\ UNCHANGED <<dvars, retry, paging>>

\* client.rs 123-131.
LoadCachedStore(i) ==
    /\ caching.pc = "load_cached"
    /\ i \in 1..Len(caching.calls)
    /\ caching.calls[i].pc = "returned"
    /\ \E readable \in BOOLEAN, stored \in BOOLEAN, rev \in Revisions :
         caching' = load_cached_store(caching, i, readable, stored, rev)
    /\ UNCHANGED <<dvars, retry, paging>>

NextCache ==
    \/ \E k \in CacheKeys : LoadCachedHit(k) \/ LoadCachedMiss(k)
    \/ \E i \in 1..MaxCalls : LoadCachedFetch(i) \/ LoadCachedStore(i)

SpecCache == InitCache /\ [][NextCache]_vars


---------------------------------------------------------------------------
(* The endpoints of the client (client.rs 186-412): each acquires the       *)
(* access token with self.get, self.put or self.delete before anything      *)
(* else, except get_image, which sends its request on the agent directly.   *)
(* The cache directory outlives the program: an entry may be found in it    *)
(* that this run did not write, and that may not deserialize as the type    *)
(* asked.                                                                   *)

\* The key whose entry is found in the cache directory.
FoundKey == <<"album", "a">>

\* The entry found; json is whether its content deserializes.
FoundEntry(json) ==
    [body |-> [of |-> FoundKey, json |-> json, rev |-> "r0"], mtime |-> 0]

\* An endpoint that is not a cached GET, and the image endpoint.
SearchKey == <<"search", "a">>

ImageKey == <<"image", "a">>

InitEndpoints ==
    /\ DelegateInit
    /\ retry = Idle
    /\ paging = Idle
    /\ caching \in {[pc |-> "load_cached",
                     cache |-> [base |-> TRUE,
                                files |-> [k \in CacheKeys |->
                                    IF k = FoundKey THEN <<FoundEntry(j)>> ELSE <<>>]],
                     clock |-> 0, calls |-> <<>>] : j \in BOOLEAN}

\* The cache is consulted before the token is acquired.
AccessTokenFailed_CacheFirst(k) ==
    /\ caching.pc = "load_cached"
    /\ Len(caching.calls) < MaxCalls
    /\ caching' = [caching EXCEPT !.calls = Append(@,
           IF k \in CacheKeys /\ Len(cache_get(caching.cache, k)) > 0
           THEN [NewCall(k, caching.clock) EXCEPT
                    !.token = FALSE, !.pc = "done", !.hit = TRUE,
                    !.result = load_cached_hit(cache_get(caching.cache, k)[1], TRUE)]
           ELSE [NewCall(k, caching.clock) EXCEPT
                    !.token = FALSE, !.pc = "done", !.result = Failed("token")])]
    /\ UNCHANGED <<dvars, retry, paging>>

\* client.rs 56-63 in an endpoint that begins with self.get(..)?,
\* self.put(..)? or self.delete(..)?: access_token() fails and the endpoint
\* returns its error.
AccessTokenFailed(k) ==
    /\ caching.pc = "load_cached"
    /\ Len(caching.calls) < MaxCalls
    /\ caching' = [caching EXCEPT !.calls = Append(@,
           [NewCall(k, caching.clock) EXCEPT
               !.token = FALSE, !.pc = "done", !.result = Failed("token")])]
    /\ UNCHANGED <<dvars, retry, paging>>

\* get_image (client.rs 399-412): the request is sent on the agent; no
\* token is asked for.
GetImage(answer) ==
    /\ caching.pc = "load_cached"
    /\ Len(caching.calls) < MaxCalls
    /\ caching' = [caching EXCEPT !.calls = Append(@,
           [NewCall(ImageKey, caching.clock) EXCEPT
               !.pc = "done", !.sends = 1,
               !.result = IF call(answer).ok /\ answer.json
                          THEN Cached_fresh(Body(ImageKey, answer, "r1"))
                          ELSE Failed("image")])]
    /\ UNCHANGED <<dvars, retry, paging>>

NextEndpoints ==
    \/ \E k \in CacheKeys : LoadCachedHit(k) \/ LoadCachedMiss(k)
    \/ \E i \in 1..MaxCalls : LoadCachedFetch(i) \/ LoadCachedStore(i)
    \/ \E k \in CacheKeys \cup {SearchKey} : AccessTokenFailed(k)
    \/ \E answer \in CacheAnswers : GetImage(answer)

SpecEndpoints == InitEndpoints /\ [][NextEndpoints]_vars

---------------------------------------------------------------------------
(* Claims about load_cached. *)

CallIds == IF caching.pc = "idle" THEN {} ELSE 1..Len(caching.calls)

CallDone(i) == caching.calls[i].pc = "done"

SameKey(i, j) == caching.calls[i].key = caching.calls[j].key

\* Call i is the first call that began for its (bucket, key).
FirstOn(i) == \A h \in 1..(i - 1) : ~SameKey(h, i)

\* Call i returned Fresh and its write succeeded.
WroteFresh(i) ==
    /\ CallDone(i)
    /\ caching.calls[i].result.tag = "Fresh"
    /\ caching.calls[i].wrote > 0

WritesBefore(j) ==
    {caching.calls[i].wrote : i \in {h \in CallIds :
        /\ SameKey(h, j)
        /\ caching.calls[h].wrote > 0
        /\ caching.calls[h].wrote <= caching.calls[j].began}}

Latest(S) == CHOOSE t \in S : \A u \in S : u <= t

\* The calls for the key of call j that found no entry.
Misses(j) == {h \in CallIds : SameKey(h, j) /\ ~caching.calls[h].hit}

Writers(k) == {i \in CallIds : caching.calls[i].key = k /\ caching.calls[i].wrote > 0}

\* The writers of the key of call j whose write was complete when j began.
WritersBefore(j) ==
    {i \in Writers(caching.calls[j].key) :
        caching.calls[i].wrote <= caching.calls[j].began}

\* The call of W that wrote last.
LastOf(W) == CHOOSE i \in W : \A h \in W : caching.calls[h].wrote <= caching.calls[i].wrote

FetchFailures == {"transport", "status", "io", "json"}

\* C12: with no base directory no entry is ever stored, every call is a
\* miss, has sent a request once it is past with_retry, and ends Fresh or
\* with an error of the fetch itself, never Cached and never with an error
\* of the cache.
C12_DisabledCacheAlwaysFetches ==
    (caching.pc = "load_cached" /\ ~caching.cache.base) =>
        /\ \A k \in CacheKeys : Len(caching.cache.files[k]) = 0
        /\ \A i \in CallIds :
               LET c == caching.calls[i]
               IN  /\ ~c.hit
                   /\ c.wrote = 0
                   /\ c.pc \in {"returned", "done"} => c.sends >= 1
                   /\ CallDone(i) =>
                          IF c.result.ok
                          THEN c.result.tag = "Fresh" /\ c.sends = 1
                          ELSE c.result.tag \in FetchFailures

\* No base directory: three calls for one key, each returned Fresh after a
\* request of its own.
C12_Witness ==
    /\ caching.pc = "load_cached"
    /\ ~caching.cache.base
    /\ Len(caching.calls) = 3
    /\ \A i \in 1..3 :
           /\ caching.calls[i].key = <<"album", "a">>
           /\ caching.calls[i].result.tag = "Fresh"
           /\ caching.calls[i].sends = 1

\* The call begun by this step, when the step begins one.
Begins == caching.pc = "load_cached" /\ Len(caching'.calls) = Len(caching.calls) + 1

NewCallOf == caching'.calls[Len(caching'.calls)]

\* The last call begun so far for key k, 0 when there is none.
LastCallOn(k) ==
    LET on == {i \in CallIds : caching.calls[i].key = k}
    IN  IF on = {} THEN 0 ELSE CHOOSE i \in on : \A h \in on : h <= i

\* Call i returned Fresh and its set wrote nothing.
WriteFailed(i) ==
    /\ CallDone(i)
    /\ caching.calls[i].result.tag = "Fresh"
    /\ caching.calls[i].wrote = 0

\* A step in which call i passes cache.set and the set writes nothing ends
\* the call with the fetched value, Fresh, and no error.
FreshThoughNotStored ==
    \A i \in CallIds :
        (/\ caching.calls[i].pc = "returned"
         /\ caching.calls[i].outcome.response.json
         /\ caching'.calls[i].pc = "done"
         /\ caching'.calls[i].result.tag # "io"
         /\ caching'.cache = caching.cache)
            => /\ caching'.calls[i].result.ok
               /\ caching'.calls[i].result.tag = "Fresh"
               /\ caching'.calls[i].result.value.of = caching.calls[i].key
               /\ caching'.calls[i].sends = 1

\* C13 as stated: a set that fails leaves the call Fresh with no error, and
\* the next call begun for the key after a call whose set failed is a miss.
C13_NextCallAfterFailedWriteMisses ==
    [][/\ FreshThoughNotStored
       /\ \A k \in CacheKeys :
              (/\ Begins
               /\ NewCallOf.key = k
               /\ LastCallOn(k) # 0
               /\ WriteFailed(LastCallOn(k)))
                  => ~NewCallOf.hit /\ NewCallOf.pc = "with_retry"]_vars

\* C13, amended: a set that fails leaves the call Fresh with no error; the
\* next call begun for the key is a miss, which sends its own request,
\* when no other call has written the entry, and a hit when one has.
C13_FailedWriteIsAMissNextTime ==
    [][/\ FreshThoughNotStored
       /\ \A k \in CacheKeys :
              (/\ Begins
               /\ NewCallOf.key = k
               /\ LastCallOn(k) # 0
               /\ WriteFailed(LastCallOn(k)))
                  => IF Writers(k) = {}
                     THEN ~NewCallOf.hit /\ NewCallOf.pc = "with_retry"
                     ELSE NewCallOf.hit
       /\ \A i \in CallIds :
              (~caching.calls[i].hit /\ caching.calls[i].pc = "with_retry"
                   /\ caching'.calls[i].pc # "with_retry")
                  => caching'.calls[i].sends = caching.calls[i].sends + 1]_vars

\* With a base directory: the set of the first call failed and it returned
\* Fresh; the second call for the key missed, fetched and wrote the entry.
C13_Witness ==
    /\ caching.pc = "load_cached"
    /\ caching.cache.base
    /\ Len(caching.calls) = 2
    /\ SameKey(1, 2)
    /\ WriteFailed(1)
    /\ ~caching.calls[2].hit
    /\ caching.calls[2].sends = 1
    /\ caching.calls[2].wrote = 1


---------------------------------------------------------------------------
(* The image requests of the Delegate with enough locations to fill the    *)
(* image cache (command_image, delegate.rs 129-166).                       *)
(* Locations are numbered by the request that asks for them first. While   *)
(* fewer requests than the capacity of the cache have been handled, each   *)
(* request asks for a new location, waits for the one before to be         *)
(* provided, and its fetch succeeds; after that, requests ask for a new    *)
(* location or one asked before, overlap, and fetches may fail.            *)

\* REQUEST_DATA commands handled in one run.
MaxImageRequests == 258

\* The cache is still being filled, one location at a time.
Filling == loads < IMAGE_CACHE_SIZE

\* The location no request has asked for yet.
NewLocation == loads + 1

\* Locations asked again: the two asked first and the one used last.
AskedAgain ==
    {1, 2} \cup (IF Len(image_cache) > 0
                 THEN {image_cache[Len(image_cache)]}
                 ELSE {})

\* remote_image::REQUEST_DATA (delegate.rs 136-159).
RequestImage(location, target) ==
    /\ loads < MaxImageRequests
    /\ Threads < MaxThreads
    /\ IF Filling
       THEN location = NewLocation /\ Threads = 0
       ELSE location = NewLocation \/ location \in AskedAgain
    /\ loads' = loads + 1
    /\ command_image_request(location, target)

\* The thread of an image fetch ends (delegate.rs 146-157).
ImageFetched(j, r) ==
    /\ r.ok \/ ~Filling
    /\ ImageWorkerFinish(j, r)

NextImages ==
    \/ \E l \in 1..MaxImageRequests : \E t \in Targets : RequestImage(l, t)
    \/ \E j \in BagToSet(workers) : \E r \in Results(j.link) : ImageFetched(j, r)
    \/ ProvideData

SpecImages == Init /\ [][NextImages]_vars


---------------------------------------------------------------------------
(* Claims about the endpoints and the entries of the disk cache. *)

\* Call j is a hit that failed.
FailedHit(j) ==
    /\ caching.calls[j].hit
    /\ CallDone(j)
    /\ ~caching.calls[j].result.ok

FailsOnToken(c) ==
    ~c.token => /\ c.result = Failed("token")
                /\ c.sends = 0
                /\ ~c.hit
                /\ c.wrote = 0

\* C29: a call of an endpoint in which the acquisition of the access token
\* fails returns the error, has sent no request and has neither read nor
\* written the disk cache, whether or not its key is in the cache; and the
\* step in which it fails leaves the cache as it was.
C29_NoTokenNoRequest ==
    /\ [](\A j \in CallIds : FailsOnToken(caching.calls[j]))
    /\ [][(Len(caching'.calls) > Len(caching.calls)
              /\ ~caching'.calls[Len(caching'.calls)].token)
             => caching'.cache = caching.cache]_vars

\* A cached GET for the key of the entry found, and one for a key with no
\* entry, both without a token: both ended in the error of the token.
C29_Witness ==
    /\ caching.pc = "load_cached"
    /\ Len(caching.calls) >= 2
    /\ caching.calls[1].key = FoundKey /\ ~caching.calls[1].token
    /\ caching.calls[2].key # FoundKey /\ ~caching.calls[2].token
    /\ caching.calls[1].result = Failed("token")
    /\ caching.calls[2].result = Failed("token")
    /\ Len(caching.cache.files[FoundKey]) = 1
    /\ Len(caching.cache.files[caching.calls[2].key]) = 0

\* C30: every entry of the cache holds a body that deserializes; a call
\* whose fetched body does not deserialize returns the error and has written
\* nothing; no hit fails on the deserialization of the entry.
C30_OnlyDeserializedBodiesAreCached ==
    /\ caching.pc # "idle"
           => \A k \in CacheKeys :
                  Len(caching.cache.files[k]) > 0
                      => caching.cache.files[k][1].body.json
    /\ \A j \in CallIds :
           /\ caching.calls[j].result.tag = "json" => caching.calls[j].wrote = 0
           /\ caching.calls[j].hit => caching.calls[j].result.tag # "from_reader"

\* A body that did not deserialize was fetched and nothing was written for
\* its key; an entry written for the other key was returned by a hit.
C30_Witness ==
    /\ \E i \in CallIds :
           /\ caching.calls[i].result = Failed("json")
           /\ Len(caching.cache.files[caching.calls[i].key]) = 0
    /\ \E j \in CallIds :
           /\ caching.calls[j].hit
           /\ caching.calls[j].result.ok

---------------------------------------------------------------------------
(* Claims about the image cache and the image requests. *)

Cached(location) == \E i \in 1..Len(image_cache) : image_cache[i] = location

CachedNext(location) == \E i \in 1..Len(image_cache') : image_cache'[i] = location

Entries == {image_cache[i] : i \in 1..Len(image_cache)}

EntriesNext == {image_cache'[i] : i \in 1..Len(image_cache')}

\* The locations whose PROVIDE_DATA has been handled.
Provided == {inserted[n] : n \in 1..Len(inserted)}

\* C14: the cache never holds more than 256 entries, nor an entry twice;
\* and when 257 requests for 257 distinct locations have been handled and
\* all provided, none of them served from the cache, the location inserted
\* first is not in the cache and the one inserted last is.
C14_OverCapacityEvictsTheFirst ==
    /\ Len(image_cache) <= 256
    /\ Cardinality(Entries) = Len(image_cache)
    /\ (loads = 257 /\ Len(inserted) = 257 /\ Threads = 0)
           => /\ ~Cached(inserted[1])
              /\ Cached(inserted[257])
              /\ Len(image_cache) = 256

\* After 257 distinct locations were inserted, the first one was requested
\* again: the lookup missed and a fetch was spawned for it.
C14_Witness ==
    /\ loads = 258
    /\ Len(inserted) = 257
    /\ ~Cached(inserted[1])
    /\ Cached(inserted[257])
    /\ \E t \in Targets : BagIn(ImageJob(inserted[1], t), workers)

\* This step handles a REQUEST_DATA for a location.
Requested(location) == \E t \in Targets : RequestImage(location, t)

\* This step handles the PROVIDE_DATA of a location that is not in the cache.
ProvidesNew == ProvideData /\ ~Cached(Head(queue).link)

\* C15: a request served from the cache leaves the cache with the same
\* entries and the location requested as the most recently used; an
\* insertion of a new location into the full cache evicts the entry at the
\* least recently used end and keeps every other one, the most recently
\* used among them.
C15_HitPromotesAndIsNotEvicted ==
    [][/\ \A l \in AskedAgain :
              (Requested(l) /\ Cached(l))
                  => /\ image_cache'[Len(image_cache')] = l
                     /\ Len(image_cache') = Len(image_cache)
                     /\ EntriesNext = Entries
       /\ (ProvidesNew /\ Len(image_cache) = 256)
              => /\ ~CachedNext(image_cache[1])
                 /\ Entries \ EntriesNext = {image_cache[1]}
                 /\ image_cache'[256] = Head(queue).link
                 /\ Len(image_cache') = 256]_vars

\* The cache was full, location 1 was served from it, and the next new
\* location took the place of location 2.
C15_Witness ==
    /\ Len(image_cache) = 256
    /\ Len(inserted) = 257
    /\ Cached(1)
    /\ ~Cached(2)
    /\ Cached(inserted[257])
    /\ panicked = {}

\* C16: a cached location is one whose PROVIDE_DATA was handled, and it
\* leaves the cache only by eviction; a REQUEST_DATA for a cached location
\* spawns nothing and submits one PROVIDE_DATA with its image to the target
\* of the request; for a location not cached it submits nothing and spawns
\* one fetch, which on success submits one PROVIDE_DATA to that target and
\* ends; handling PROVIDE_DATA puts the location in the cache.
C16_ServedFromCacheOrFetchedOnce ==
    [][/\ Entries \subseteq Provided
       /\ Entries \ EntriesNext # {}
              => /\ ProvidesNew
                 /\ Entries \ EntriesNext = {image_cache[1]}
                 /\ Len(image_cache) = 256
       /\ \A l \in (AskedAgain \cup {NewLocation}) : \A t \in Targets :
              RequestImage(l, t)
                  => IF Cached(l)
                     THEN /\ workers' = workers
                          /\ queue' = Append(queue, ProvideDataMsg(l, Ok(l), t))
                     ELSE /\ queue' = queue
                          /\ BagCardinality(workers') = BagCardinality(workers) + 1
                          /\ CopiesIn(ImageJob(l, t), workers')
                                 = CopiesIn(ImageJob(l, t), workers) + 1
       /\ \A j \in BagToSet(workers) :
              ImageFetched(j, Ok(j.link))
                  => /\ queue' = Append(queue, ProvideDataMsg(j.link, Ok(j.link), j.target))
                     /\ BagCardinality(workers') = BagCardinality(workers) - 1
                     /\ CopiesIn(j, workers') = CopiesIn(j, workers) - 1
       /\ ProvideData => CachedNext(Head(queue).link)]_vars

\* A location served from the cache: the PROVIDE_DATA of the request is in
\* the queue, no fetch is under way, and the location was inserted once.
C16_Witness ==
    /\ loads >= 257
    /\ workers = EmptyBag
    /\ Len(queue) = 1
    /\ Cached(queue[1].link)
    /\ queue[1] = ProvideDataMsg(1, Ok(1), "w2")
    /\ Len(inserted) = 256

\* The fetches of a location under way.
FetchesOf(w, location) ==
    CopiesIn(ImageJob(location, "w1"), w) + CopiesIn(ImageJob(location, "w2"), w)

\* The entries the cache holds for a location.
EntriesFor(cache, location) ==
    Cardinality({i \in 1..Len(cache) : cache[i] = location})

\* C27: a REQUEST_DATA for a location that is not cached spawns one more
\* fetch of it, however many are under way already, and submits nothing; a
\* fetch that succeeds submits its own PROVIDE_DATA with the image of the
\* location; the cache never holds two entries for a location, and after a
\* PROVIDE_DATA is handled it holds exactly one for the location provided.
C27_OverlappingFetchesAreNotJoined ==
    /\ [](EntriesFor(image_cache, OneLink) <= 1)
    /\ [][/\ (RequestData(OneLink) /\ ~Cached(OneLink))
              => /\ FetchesOf(workers', OneLink) = FetchesOf(workers, OneLink) + 1
                 /\ queue' = queue
          /\ \A j \in BagToSet(workers) :
                 ImageWorkerFinish(j, Ok(j.link))
                     => /\ queue' = Append(queue,
                                   ProvideDataMsg(j.link, Ok(j.link), j.target))
                        /\ FetchesOf(workers', j.link) = FetchesOf(workers, j.link) - 1
          /\ ProvideData
                 => /\ Head(queue).result = Ok(Head(queue).link)
                    /\ EntriesFor(image_cache', Head(queue).link) = 1]_vars

\* Both requests spawned a fetch of the location before it was cached: the
\* PROVIDE_DATA of one fetch was handled and the location is cached once,
\* the other fetch is still under way and will provide it again.
C27_Witness ==
    /\ loads = 2
    /\ image_cache = <<OneLink>>
    /\ inserted = <<OneLink>>
    /\ FetchesOf(workers, OneLink) = 1
    /\ queue = <<>>

===========================================================================
